---- MODULE Spec2Model ----
(***************************************************************************)
(* Cloud latency monitor (src/export_csv.go, lines 1058-1691): the         *)
(* HistoryStore, the trend classifier CalculateTrend and the per-cycle     *)
(* fan-out/fan-in of runHealthCheck / runTest.                             *)
(*                                                                         *)
(* Durations are integers (time.Duration is an int64 count of ns; the      *)
(* model uses small values in an abstract unit).  A time.Time is a record  *)
(* [wall, mono]: the wall-clock instant and whether the value carries a    *)
(* monotonic-clock reading (time.Now() does, a value parsed from JSON      *)
(* does not).  A Go string is a sequence of tokens.                        *)
(***************************************************************************)
EXTENDS Integers, Sequences, FiniteSets, TLC

VARIABLES
    store,      \* HistoryStore.Services: service key -> DataPoints
    file,       \* latency_history.json on disk
    fresh,      \* a second HistoryStore, built by NewHistoryStore()
    ret,        \* the last store / classifier call and what it returned
    added,      \* history variable: every AddDataPoint call made, per key
    ops,        \* number of store calls made so far
    endpoints,  \* main's endpoints slice
    pc,         \* where main / runHealthCheck is
    cycle,      \* number of runHealthCheck calls started
    load,       \* what main's LoadFromFile found and returned
    clock,      \* the wall clock read by time.Now()
    launched,   \* number of go statements executed in this cycle
    wg,         \* the WaitGroup counter
    results,    \* the buffered results channel
    closed,     \* whether close(results) has run
    task,       \* the runTest goroutines of this cycle: position and locals
    totals,     \* runHealthCheck's counters and the three result groups
    saveErr,    \* whether the cycle's SaveToFile returned an error
    mu,         \* HistoryStore.mu: 0 when free, else the goroutine holding it
    start,      \* history variable: the Services map when the cycle began
    ticks       \* ticker.C, a channel of capacity 1: the ticks waiting in it

\* The mutex, the cycle's starting store and the ticker: the specifications
\* that do not model them leave them as they are.
auxVars == <<mu, start, ticks>>

\* The variables of the store-call harness and those of the running program.
harnessVars == <<fresh, ret, added, ops, auxVars>>
cycleVars == <<endpoints, pc, cycle, load, clock, launched, wg, results, closed,
               task, totals, saveErr>>

vars == <<store, file, harnessVars, cycleVars>>

----------------------------------------------------------------------------
(* Program constants *)

\* The window: AddDataPoint keeps the last 10 data points.
WindowSize == 10

\* CalculateTrend needs at least 3 samples.
MinSamples == 3

\* CalculateTrend's threshold, in percent.
TrendPercent == 50

(* Bounds of the model *)

\* Total number of AddDataPoint calls in SpecWindow.
MaxAdds == 11

\* Total number of store calls in SpecStore.
MaxOps == 4

----------------------------------------------------------------------------
(* Data model *)

TestTypePing == "PING"
TestTypeDNS  == "DNS"
TestTypeHTTP == "HTTP"

\* time.Now(): an instant with a monotonic reading.
Now(w) == [wall |-> w, mono |-> TRUE]

\* fmt.Sprintf("%s [%s] - %s", Location, Provider, testType)
ServiceKeyOf(location, provider, testType) ==
    location \o <<" [">> \o provider \o <<"] - ">> \o <<testType>>

\* Go's integer division truncates toward zero.
TruncDiv(a, b) ==
    IF (a >= 0) = (b > 0) THEN (IF a >= 0 THEN a ELSE -a) \div (IF b > 0 THEN b ELSE -b)
    ELSE -((IF a >= 0 THEN a ELSE -a) \div (IF b > 0 THEN b ELSE -b))

RECURSIVE SumResponseTime(_)
SumResponseTime(points) ==
    IF points = <<>> THEN 0
    ELSE points[1].ResponseTime + SumResponseTime(Tail(points))

\* s[len(s)-n:] for len(s) >= n
LastN(s, n) == SubSeq(s, Len(s) - n + 1, Len(s))

\* NewHistoryStore(): an empty Services map.
NewHistoryStore == <<>>

----------------------------------------------------------------------------
(* HistoryStore *)

\* json.Marshal of a time.Time writes the instant (RFC 3339, ns precision);
\* the monotonic reading is not written.
MarshalTime(t) == t.wall

\* json.Unmarshal of a time.Time yields the instant without monotonic reading.
UnmarshalTime(w) == [wall |-> w, mono |-> FALSE]

\* A SaveToFile that writes ResponseTime.Milliseconds() where LoadFromFile
\* reads nanoseconds.
RawDataOfMillis(hs) ==
    [k \in DOMAIN hs |->
        [i \in 1..Len(hs[k]) |->
            [Timestamp    |-> MarshalTime(hs[k][i].Timestamp),
             ResponseTime |-> hs[k][i].ResponseTime \div 1000]]]

\* The rawData built by SaveToFile: per key, {Timestamp, ResponseTime int64}.
RawDataOf(hs) ==
    [k \in DOMAIN hs |->
        [i \in 1..Len(hs[k]) |->
            [Timestamp    |-> MarshalTime(hs[k][i].Timestamp),
             ResponseTime |-> hs[k][i].ResponseTime]]]

\* The loop of LoadFromFile over rawData: every key of the file replaces the
\* store's entry for that key; the other keys of the store stay.
MergeRawData(hs, raw) ==
    [k \in (DOMAIN hs) \cup (DOMAIN raw) |->
        IF k \in DOMAIN raw
        THEN [i \in 1..Len(raw[k]) |->
                 [Timestamp    |-> UnmarshalTime(raw[k][i].Timestamp),
                  ResponseTime |-> raw[k][i].ResponseTime]]
        ELSE hs[k]]

\* A LoadFromFile without the os.IsNotExist test: a missing file is an error.
LoadFromFileMissingIsError(hs, f) ==
    CASE f.kind = "json" -> [Services |-> MergeRawData(hs, f.data), err |-> FALSE]
      [] OTHER           -> [Services |-> hs, err |-> TRUE]

\* LoadFromFile: (Services afterwards, error returned).
LoadFromFile(hs, f) ==
    CASE f.kind = "missing"    -> [Services |-> hs, err |-> FALSE]
      [] f.kind = "unreadable" -> [Services |-> hs, err |-> TRUE]
      [] f.kind = "malformed"  -> [Services |-> hs, err |-> TRUE]
      [] f.kind = "json"       -> [Services |-> MergeRawData(hs, f.data), err |-> FALSE]

\* SaveToFile when ioutil.WriteFile succeeds: the file written.
SaveToFile(hs) == [kind |-> "json", data |-> RawDataOf(hs)]

\* What a failed ioutil.WriteFile can leave on disk: the file as it was (the
\* open failed) or a truncated, unparsable file (the write failed midway).
FailedWrite(f) == {f, [kind |-> "malformed", data |-> <<>>]}

\* An AddDataPoint that truncates with DataPoints[:10]: it keeps the oldest.
AddDataPointKeepsFirst(hs, serviceName, timestamp, responseTime) ==
    LET old      == IF serviceName \in DOMAIN hs THEN hs[serviceName] ELSE <<>>
        appended == Append(old, [Timestamp |-> timestamp, ResponseTime |-> responseTime])
        kept     == IF Len(appended) > WindowSize
                    THEN SubSeq(appended, 1, WindowSize)
                    ELSE appended
    IN  [k \in (DOMAIN hs) \cup {serviceName} |->
            IF k = serviceName THEN kept ELSE hs[k]]

\* AddDataPoint: the Services map afterwards.
AddDataPoint(hs, serviceName, timestamp, responseTime) ==
    LET old      == IF serviceName \in DOMAIN hs THEN hs[serviceName] ELSE <<>>
        appended == Append(old, [Timestamp |-> timestamp, ResponseTime |-> responseTime])
        kept     == IF Len(appended) > WindowSize
                    THEN LastN(appended, WindowSize)
                    ELSE appended
    IN  [k \in (DOMAIN hs) \cup {serviceName} |->
            IF k = serviceName THEN kept ELSE hs[k]]

\* A GetBaseline that divides by the window size instead of the count.
GetBaselineOverWindow(hs, serviceName) ==
    IF serviceName \notin DOMAIN hs \/ Len(hs[serviceName]) = 0
    THEN <<0, 0>>
    ELSE <<TruncDiv(SumResponseTime(hs[serviceName]), WindowSize),
           Len(hs[serviceName])>>

\* GetBaseline: <<average, count>>.
GetBaseline(hs, serviceName) ==
    IF serviceName \notin DOMAIN hs \/ Len(hs[serviceName]) = 0
    THEN <<0, 0>>
    ELSE <<TruncDiv(SumResponseTime(hs[serviceName]), Len(hs[serviceName])),
           Len(hs[serviceName])>>

----------------------------------------------------------------------------
(* Trend classifier *)

\* A comparison diff >= pct.
DiffAboveOrEqual(current, baseline, pct) ==
    IF baseline > 0
    THEN (current - baseline) * 100 >= pct * baseline
    ELSE (current - baseline) * 100 <= pct * baseline

\* diff > pct, where diff = float64(current-baseline)/float64(baseline)*100.
\* The quotient is compared exactly, by cross-multiplication (baseline # 0);
\* float64 represents the quotients of the modelled range without a rounding
\* that crosses the threshold.
DiffAbove(current, baseline, pct) ==
    IF baseline > 0
    THEN (current - baseline) * 100 > pct * baseline
    ELSE (current - baseline) * 100 < pct * baseline

\* diff < -pct
DiffBelow(current, baseline, pct) ==
    IF baseline > 0
    THEN (current - baseline) * 100 < (-pct) * baseline
    ELSE (current - baseline) * 100 > (-pct) * baseline

\* A classifier that takes a zero sample for a missing one.
CalculateTrendSkipsZero(current, baseline, sampleCount) ==
    IF sampleCount < MinSamples THEN "BASELINE"
    ELSE IF baseline = 0 \/ current = 0 THEN "BASELINE"
    ELSE IF DiffAbove(current, baseline, TrendPercent) THEN "UP"
    ELSE IF DiffBelow(current, baseline, TrendPercent) THEN "DOWN"
    ELSE "STEADY"

\* A classifier without the sample-count check.
CalculateTrendNoWarmup(current, baseline, sampleCount) ==
    IF baseline = 0 THEN "BASELINE"
    ELSE IF DiffAbove(current, baseline, TrendPercent) THEN "UP"
    ELSE IF DiffBelow(current, baseline, TrendPercent) THEN "DOWN"
    ELSE "STEADY"

\* A CalculateTrend that labels a short history "NEW", a label the switch of
\* printResult does not have.
CalculateTrendNewLabel(current, baseline, sampleCount) ==
    IF sampleCount < MinSamples THEN "NEW"
    ELSE IF baseline = 0 THEN "BASELINE"
    ELSE IF DiffAbove(current, baseline, TrendPercent) THEN "UP"
    ELSE IF DiffBelow(current, baseline, TrendPercent) THEN "DOWN"
    ELSE "STEADY"

\* A CalculateTrend whose lower test is diff <= -50.
CalculateTrendLowerInclusive(current, baseline, sampleCount) ==
    IF sampleCount < MinSamples THEN "BASELINE"
    ELSE IF baseline = 0 THEN "BASELINE"
    ELSE IF DiffAbove(current, baseline, TrendPercent) THEN "UP"
    ELSE IF ~DiffAbove(current, baseline, -TrendPercent) THEN "DOWN"
    ELSE "STEADY"

\* CalculateTrend: "UP" is the degraded label, "DOWN" the improved one.
CalculateTrend(current, baseline, sampleCount) ==
    IF sampleCount < MinSamples THEN "BASELINE"
    ELSE IF baseline = 0 THEN "BASELINE"
    ELSE IF DiffAbove(current, baseline, TrendPercent) THEN "UP"
    ELSE IF DiffBelow(current, baseline, TrendPercent) THEN "DOWN"
    ELSE "STEADY"

----------------------------------------------------------------------------
(* Inputs of the store-level specifications *)

Paris == [Location |-> <<"Paris, FR">>, Region |-> "eu-west-3", Provider |-> <<"AWS">>,
          Hostname |-> "s3.eu-west-3.amazonaws.com",
          TestPing |-> TRUE, TestDNS |-> FALSE, TestHTTP |-> TRUE]

PingKey == ServiceKeyOf(Paris.Location, Paris.Provider, TestTypePing)
HTTPKey == ServiceKeyOf(Paris.Location, Paris.Provider, TestTypeHTTP)

StoreKeys == {PingKey, HTTPKey}

\* The measurements handed to AddDataPoint.
Samples == {[Timestamp |-> Now(1), ResponseTime |-> 100],
            [Timestamp |-> Now(2), ResponseTime |-> 160]}

\* A record of a snapshot file.
Rec(w, d) == [Timestamp |-> w, ResponseTime |-> d]

Missing    == [kind |-> "missing",    data |-> <<>>]
Unreadable == [kind |-> "unreadable", data |-> <<>>]
Malformed  == [kind |-> "malformed",  data |-> <<>>]

\* Three ping measurements averaging 100.
ThreeAt100 == [kind |-> "json",
               data |-> (PingKey :> <<Rec(1, 90), Rec(2, 100), Rec(3, 110)>>)]

\* A well-formed snapshot may hold any int64, also negative, and empty lists.
NegativeFile == [kind |-> "json",
                 data |-> (PingKey :> <<Rec(1, -3), Rec(2, 0)>>) @@ (HTTPKey :> <<>>)]

\* A well-formed snapshot with one record more than the window for a key.
ElevenAt100 == [kind |-> "json",
                data |-> (PingKey :> [i \in 1..(WindowSize + 1) |-> Rec(i, 94 + i)])]

InitialFiles == {Missing, Unreadable, Malformed, ThreeAt100, NegativeFile, ElevenAt100}

----------------------------------------------------------------------------
(* Store calls, one action per call *)

\* time.Time{}: the zero value of a timestamp local.
ZeroTime == [wall |-> 0, mono |-> FALSE]

\* A runTest goroutine that has not been started: its locals hold zero values.
IdleTask == [pc |-> "none", online |-> FALSE, responseTime |-> 0, resolvedIP |-> "",
             errMsg |-> "", timestamp |-> ZeroTime, baseline |-> 0, sampleCount |-> 0,
             trend |-> ""]

\* runHealthCheck's counters and groups as declared (lines 1534-1540).
ZeroTotals == [totalTests |-> 0, successfulTests |-> 0, totalResponseTime |-> 0,
               pingResults |-> <<>>, dnsResults |-> <<>>, httpResults |-> <<>>,
               avgResponseTime |-> 0]

\* The program is not running: only store calls are made.
NoProgram ==
    /\ endpoints = <<>>
    /\ pc = "harness"
    /\ cycle = 0
    /\ load = [kind |-> "none", err |-> FALSE]
    /\ clock = 1
    /\ launched = 0
    /\ wg = 0
    /\ results = <<>>
    /\ closed = FALSE
    /\ task = <<>>
    /\ totals = ZeroTotals
    /\ saveErr = FALSE
    /\ mu = 0
    /\ start = NewHistoryStore
    /\ ticks = 0

StoreInit ==
    /\ NoProgram
    /\ store = NewHistoryStore
    /\ fresh = NewHistoryStore
    /\ ret = [op |-> "none"]
    /\ added = [k \in StoreKeys |-> <<>>]
    /\ ops = 0

\* hs.AddDataPoint(k, m.Timestamp, m.ResponseTime)
CallAddDataPoint(bound) ==
    /\ ops < bound
    /\ \E k \in StoreKeys, m \in Samples :
          /\ store' = AddDataPoint(store, k, m.Timestamp, m.ResponseTime)
          /\ added' = [added EXCEPT ![k] = Append(@, m)]
          /\ ret' = [op |-> "AddDataPoint", key |-> k, after |-> ret.op]
    /\ ops' = ops + 1
    /\ UNCHANGED <<file, fresh, cycleVars, auxVars>>

\* hs.GetBaseline(k)
CallGetBaseline ==
    /\ ops < MaxOps
    /\ \E k \in StoreKeys :
          ret' = [op |-> "GetBaseline", key |-> k, after |-> ret.op,
                  baseline |-> GetBaseline(store, k)[1],
                  count |-> GetBaseline(store, k)[2]]
    /\ ops' = ops + 1
    /\ UNCHANGED <<store, file, fresh, added, cycleVars, auxVars>>

\* hs.SaveToFile(f): the write succeeds, or fails and the error is returned.
CallSaveToFile ==
    /\ ops < MaxOps
    /\ \/ /\ file' = SaveToFile(store)
          /\ ret' = [op |-> "SaveToFile", err |-> FALSE, after |-> ret.op]
       \/ /\ file' \in FailedWrite(file)
          /\ ret' = [op |-> "SaveToFile", err |-> TRUE, after |-> ret.op]
    /\ ops' = ops + 1
    /\ UNCHANGED <<store, fresh, added, cycleVars, auxVars>>

\* hs.LoadFromFile(f) on the store in use.
CallLoadFromFile ==
    /\ ops < MaxOps
    /\ store' = LoadFromFile(store, file).Services
    /\ ret' = [op |-> "LoadFromFile", err |-> LoadFromFile(store, file).err,
               kind |-> file.kind, after |-> ret.op]
    /\ ops' = ops + 1
    /\ UNCHANGED <<file, fresh, added, cycleVars, auxVars>>

\* fresh := NewHistoryStore(); fresh.LoadFromFile(f)
CallLoadFresh ==
    /\ ops < MaxOps
    /\ fresh' = LoadFromFile(NewHistoryStore, file).Services
    /\ ret' = [op |-> "LoadFresh", err |-> LoadFromFile(NewHistoryStore, file).err,
               kind |-> file.kind, after |-> ret.op,
               saved |-> (ret.op = "SaveToFile" /\ ~ret.err)]
    /\ ops' = ops + 1
    /\ UNCHANGED <<store, file, added, cycleVars, auxVars>>

\* AddDataPoint calls on a store that starts empty.
InitWindow == StoreInit /\ file = Missing

NextWindow == CallAddDataPoint(MaxAdds)

SpecWindow == InitWindow /\ [][NextWindow]_vars

\* Any sequence of store calls, over any snapshot file found on disk.
InitStore == StoreInit /\ file \in InitialFiles

NextStore ==
    \/ CallAddDataPoint(MaxOps)
    \/ CallGetBaseline
    \/ CallSaveToFile
    \/ CallLoadFromFile
    \/ CallLoadFresh

SpecStore == InitStore /\ [][NextStore]_vars

----------------------------------------------------------------------------
(* The program: main, runHealthCheck and the runTest goroutines *)

\* Number of runHealthCheck calls modelled.
MaxCycles == 2

Tokyo == [Location |-> <<"Tokyo, JP">>, Region |-> "ap-northeast-1", Provider |-> <<"AWS">>,
          Hostname |-> "s3.ap-northeast-1.amazonaws.com",
          TestPing |-> FALSE, TestDNS |-> TRUE, TestHTTP |-> FALSE]

Milan == [Location |-> <<"Milan, IT">>, Region |-> "eu-south-1", Provider |-> <<"AWS">>,
          Hostname |-> "s3.eu-south-1.amazonaws.com",
          TestPing |-> FALSE, TestDNS |-> FALSE, TestHTTP |-> FALSE]

\* The endpoint lists main is run with.
Configs == {<<Paris>>, <<Tokyo, Milan>>}

\* The snapshot files main may find.
MainFiles == {Missing, Malformed, ThreeAt100}

\* Durations a successful probe may measure.
Durations == {45, 160}

\* A launch loop that pings an endpoint for which no test is enabled.
KindsOfDefaultPing(e) ==
    IF ~e.TestDNS /\ ~e.TestPing /\ ~e.TestHTTP
    THEN <<TestTypePing>>
    ELSE (IF e.TestDNS THEN <<TestTypeDNS>> ELSE <<>>)
         \o (IF e.TestPing THEN <<TestTypePing>> ELSE <<>>)
         \o (IF e.TestHTTP THEN <<TestTypeHTTP>> ELSE <<>>)

\* A launch loop whose ping branch tests the DNS flag.
KindsOfWrongFlag(e) ==
    (IF e.TestDNS THEN <<TestTypeDNS>> ELSE <<>>)
    \o (IF e.TestDNS THEN <<TestTypePing>> ELSE <<>>)
    \o (IF e.TestHTTP THEN <<TestTypeHTTP>> ELSE <<>>)

\* The go statements of one endpoint, in the order of lines 1516-1527.
KindsOf(e) ==
    (IF e.TestDNS THEN <<TestTypeDNS>> ELSE <<>>)
    \o (IF e.TestPing THEN <<TestTypePing>> ELSE <<>>)
    \o (IF e.TestHTTP THEN <<TestTypeHTTP>> ELSE <<>>)

\* The goroutines the launch loop starts, in order.
RECURSIVE TaskList(_)
TaskList(eps) ==
    IF eps = <<>> THEN <<>>
    ELSE [j \in 1..Len(KindsOf(Head(eps))) |->
             [Endpoint |-> Head(eps), TestType |-> KindsOf(Head(eps))[j]]]
         \o TaskList(Tail(eps))

Tasks == DOMAIN task

TaskOf(t) == TaskList(endpoints)[t]

\* A service key without the test type.
ServiceKeyWithoutKind(t) ==
    TaskOf(t).Endpoint.Location \o <<" [">> \o TaskOf(t).Endpoint.Provider \o <<"]">>

\* A service key that also carries the hostname.
ServiceKeyWithHostname(t) ==
    ServiceKeyOf(TaskOf(t).Endpoint.Location, TaskOf(t).Endpoint.Provider, TaskOf(t).TestType)
    \o <<TaskOf(t).Endpoint.Hostname>>

\* serviceKey of runTest (line 1396).
ServiceKey(t) ==
    ServiceKeyOf(TaskOf(t).Endpoint.Location, TaskOf(t).Endpoint.Provider, TaskOf(t).TestType)

\* A results channel with one slot per endpoint.
ResultsCapPerEndpoint(eps) == Len(eps)

\* A results channel made without a buffer.
ResultsCapUnbuffered(eps) == 0

\* cap(results) = len(endpoints)*3
ResultsCap(eps) == Len(eps) * 3

\* A switch that records the elapsed time of a failed probe too.
OutcomesFailedKeepElapsed(testType) ==
    {[online |-> FALSE, responseTime |-> d, resolvedIP |-> "", errMsg |-> "timeout"]
        : d \in Durations}
    \cup {[online |-> TRUE, responseTime |-> d, resolvedIP |-> "", errMsg |-> ""]
            : d \in Durations}

\* What the switch of runTest (lines 1357-1393) can leave in
\* (online, responseTime, resolvedIP, errMsg) for each test type.
Outcomes(testType) ==
    CASE testType = TestTypeDNS ->
            {[online |-> FALSE, responseTime |-> 0, resolvedIP |-> "", errMsg |-> "no such host"]}
            \cup {[online |-> TRUE, responseTime |-> d, resolvedIP |-> "52.0.0.1", errMsg |-> ""]
                    : d \in Durations}
      [] testType = TestTypePing ->
            {[online |-> FALSE, responseTime |-> 0, resolvedIP |-> "",
              errMsg |-> "DNS resolution failed"],
             [online |-> FALSE, responseTime |-> 0, resolvedIP |-> "52.0.0.1",
              errMsg |-> "ping failed"]}
            \cup {[online |-> TRUE, responseTime |-> d, resolvedIP |-> "52.0.0.1", errMsg |-> ""]
                    : d \in Durations}
      [] testType = TestTypeHTTP ->
            {[online |-> FALSE, responseTime |-> 0, resolvedIP |-> "", errMsg |-> "timeout"]}
            \cup {[online |-> TRUE, responseTime |-> d, resolvedIP |-> "", errMsg |-> ""]
                    : d \in Durations}

\* A runTest that appends whether or not the probe succeeded.
AfterTrendAlwaysAdd(online) == "add"

\* `if online { history.AddDataPoint(...) }` (line 1403): where runTest goes
\* after the baseline and trend.
AfterTrend(online) == IF online THEN "add" ELSE "send"

\* A launch loop that forgets wg.Add(1).
WgAddForgotten(counter) == counter

\* wg.Add(1)
WgAdd(counter) == counter + 1

\* A wait that returns while one task is still running.
WaitReturnsOneEarly(counter) == counter <= 1

\* A runHealthCheck without wg.Wait().
WaitReturnsAtOnce(counter) == TRUE

\* wg.Wait() returns when the counter is zero.
WaitReturns(counter) == counter = 0

\* The TestResult built by runTest (lines 1407-1417).
ResultOf(t) ==
    [Endpoint |-> TaskOf(t).Endpoint, TestType |-> TaskOf(t).TestType,
     Online |-> task[t].online, ResponseTime |-> task[t].responseTime,
     ResolvedIP |-> task[t].resolvedIP, Error |-> task[t].errMsg,
     Timestamp |-> task[t].timestamp, Trend |-> task[t].trend,
     Baseline |-> task[t].baseline]

\* A range loop whose HTTP case appends to the ping group.
TallyHTTPAsPing(tt, r) ==
    [tt EXCEPT
        !.totalTests = @ + 1,
        !.successfulTests = IF r.Online THEN @ + 1 ELSE @,
        !.totalResponseTime = IF r.Online THEN @ + r.ResponseTime ELSE @,
        !.pingResults = IF r.TestType \in {TestTypePing, TestTypeHTTP} THEN Append(@, r) ELSE @,
        !.dnsResults = IF r.TestType = TestTypeDNS THEN Append(@, r) ELSE @]

\* One iteration of `for result := range results` (lines 1542-1557).
Tally(tt, r) ==
    [tt EXCEPT
        !.totalTests = @ + 1,
        !.successfulTests = IF r.Online THEN @ + 1 ELSE @,
        !.totalResponseTime = IF r.Online THEN @ + r.ResponseTime ELSE @,
        !.pingResults = IF r.TestType = TestTypePing THEN Append(@, r) ELSE @,
        !.dnsResults = IF r.TestType = TestTypeDNS THEN Append(@, r) ELSE @,
        !.httpResults = IF r.TestType = TestTypeHTTP THEN Append(@, r) ELSE @]

\* successRate of the summary (line 1586), a float64 quotient: 0/0 is NaN and
\* does not panic. Otherwise the rate as the fraction <<successes * 100, total>>.
SuccessRate(tt) ==
    IF tt.totalTests = 0
    THEN (IF tt.successfulTests = 0 THEN "NaN" ELSE "+Inf")
    ELSE <<tt.successfulTests * 100, tt.totalTests>>

\* A mean taken over all the tests instead of the successful ones.
AvgResponseTimeOverTotal(tt) ==
    IF tt.totalTests > 0
    THEN TruncDiv(tt.totalResponseTime, tt.totalTests)
    ELSE 0

\* avgResponseTime of the summary (lines 1587-1590).
AvgResponseTime(tt) ==
    IF tt.successfulTests > 0
    THEN TruncDiv(tt.totalResponseTime, tt.successfulTests)
    ELSE 0

InitMain ==
    /\ store = NewHistoryStore
    /\ file \in MainFiles
    /\ fresh = NewHistoryStore
    /\ ret = [op |-> "none"]
    /\ added = [k \in StoreKeys |-> <<>>]
    /\ ops = 0
    /\ endpoints \in Configs
    /\ pc = "load"
    /\ cycle = 0
    /\ load = [kind |-> "none", err |-> FALSE]
    /\ clock = 1
    /\ launched = 0
    /\ wg = 0
    /\ results = <<>>
    /\ closed = FALSE
    /\ task = <<>>
    /\ totals = ZeroTotals
    /\ saveErr = FALSE
    /\ mu = 0
    /\ start = NewHistoryStore
    /\ ticks = 0

\* main, lines 1611-1616: history.LoadFromFile; an error is only reported.
MainLoad ==
    /\ pc = "load"
    /\ store' = LoadFromFile(store, file).Services
    /\ load' = [kind |-> file.kind, err |-> LoadFromFile(store, file).err]
    /\ pc' = "ready"
    /\ UNCHANGED <<file, harnessVars, endpoints, cycle, clock, launched, wg, results,
                   closed, task, totals, saveErr>>

\* main calls runHealthCheck (line 1684, and line 1689 on each tick): the
\* channel and the WaitGroup are created (lines 1509-1510).
BeginCycle ==
    /\ pc = "ready"
    /\ cycle < MaxCycles
    /\ cycle' = cycle + 1
    /\ results' = <<>>
    /\ closed' = FALSE
    /\ wg' = 0
    /\ launched' = 0
    /\ task' = [t \in 1..Len(TaskList(endpoints)) |-> IdleTask]
    /\ totals' = ZeroTotals
    /\ pc' = "launch"
    /\ UNCHANGED <<store, file, harnessVars, endpoints, load, clock, saveErr>>

\* wg.Add(1); go runTest(...)
Launch ==
    /\ pc = "launch"
    /\ launched < Len(TaskList(endpoints))
    /\ wg' = WgAdd(wg)
    /\ task' = [task EXCEPT ![launched + 1].pc = "start"]
    /\ launched' = launched + 1
    /\ UNCHANGED <<store, file, harnessVars, endpoints, pc, cycle, load, clock, results,
                   closed, totals, saveErr>>

\* The launch loop is over and wg.Wait() returns.
Wait ==
    /\ pc = "launch"
    /\ launched = Len(TaskList(endpoints))
    /\ WaitReturns(wg)
    /\ pc' = "close"
    /\ UNCHANGED <<store, file, harnessVars, endpoints, cycle, load, clock, launched, wg,
                   results, closed, task, totals, saveErr>>

\* close(results)
Close ==
    /\ pc = "close"
    /\ closed' = TRUE
    /\ pc' = "collect"
    /\ UNCHANGED <<store, file, harnessVars, endpoints, cycle, load, clock, launched, wg,
                   results, task, totals, saveErr>>

\* One result received by `for result := range results`.
Collect ==
    /\ pc = "collect"
    /\ results # <<>>
    /\ totals' = Tally(totals, Head(results))
    /\ results' = Tail(results)
    /\ UNCHANGED <<store, file, harnessVars, endpoints, pc, cycle, load, clock, launched,
                   wg, closed, task, saveErr>>

\* The range loop ends on the drained, closed channel; the groups are printed
\* and logged and the summary computed (lines 1559-1597).
Summary ==
    /\ pc = "collect"
    /\ results = <<>>
    /\ closed
    /\ totals' = [totals EXCEPT !.avgResponseTime = AvgResponseTime(totals)]
    /\ pc' = "save"
    /\ UNCHANGED <<store, file, harnessVars, endpoints, cycle, load, clock, launched, wg,
                   results, closed, task, saveErr>>

\* A runHealthCheck that ends the process when the save fails.
SaveFatal ==
    /\ pc = "save"
    /\ \/ file' = SaveToFile(store) /\ saveErr' = FALSE /\ pc' = "ready"
       \/ file' \in FailedWrite(file) /\ saveErr' = TRUE /\ pc' = "exited"
    /\ UNCHANGED <<store, harnessVars, endpoints, cycle, load, clock, launched, wg,
                   results, closed, task, totals>>

\* history.SaveToFile (lines 1600-1602): an error is only reported.
Save ==
    /\ pc = "save"
    /\ \/ file' = SaveToFile(store) /\ saveErr' = FALSE
       \/ file' \in FailedWrite(file) /\ saveErr' = TRUE
    /\ pc' = "ready"
    /\ UNCHANGED <<store, harnessVars, endpoints, cycle, load, clock, launched, wg,
                   results, closed, task, totals>>

\* runTest: timestamp := time.Now() (line 1355)
TaskStart(t) ==
    /\ task[t].pc = "start"
    /\ task' = [task EXCEPT ![t].timestamp = Now(clock), ![t].pc = "probe"]
    /\ clock' = clock + 1
    /\ UNCHANGED <<store, file, harnessVars, endpoints, pc, cycle, load, launched, wg,
                   results, closed, totals, saveErr>>

\* runTest: the probe of the switch returns (lines 1357-1393).
ProbeReturn(t) ==
    /\ task[t].pc = "probe"
    /\ \E o \in Outcomes(TaskOf(t).TestType) :
          task' = [task EXCEPT ![t].online = o.online,
                               ![t].responseTime = o.responseTime,
                               ![t].resolvedIP = o.resolvedIP,
                               ![t].errMsg = o.errMsg,
                               ![t].pc = "baseline"]
    /\ UNCHANGED <<store, file, harnessVars, endpoints, pc, cycle, load, clock, launched,
                   wg, results, closed, totals, saveErr>>

\* runTest: GetBaseline and CalculateTrend (lines 1399-1400).
TaskGetBaseline(t) ==
    /\ task[t].pc = "baseline"
    /\ task' = [task EXCEPT
                  ![t].baseline = GetBaseline(store, ServiceKey(t))[1],
                  ![t].sampleCount = GetBaseline(store, ServiceKey(t))[2],
                  ![t].trend = CalculateTrend(task[t].responseTime,
                                              GetBaseline(store, ServiceKey(t))[1],
                                              GetBaseline(store, ServiceKey(t))[2]),
                  ![t].pc = AfterTrend(task[t].online)]
    /\ UNCHANGED <<store, file, harnessVars, endpoints, pc, cycle, load, clock, launched,
                   wg, results, closed, totals, saveErr>>

\* runTest: history.AddDataPoint (line 1404).
TaskAddDataPoint(t) ==
    /\ task[t].pc = "add"
    /\ store' = AddDataPoint(store, ServiceKey(t), task[t].timestamp, task[t].responseTime)
    /\ task' = [task EXCEPT ![t].pc = "send"]
    /\ UNCHANGED <<file, harnessVars, endpoints, pc, cycle, load, clock, launched, wg,
                   results, closed, totals, saveErr>>

\* runTest: results <- result (line 1419); blocks while the buffer is full.
TaskSend(t) ==
    /\ task[t].pc = "send"
    /\ ~closed
    /\ Len(results) < ResultsCap(endpoints)
    /\ results' = Append(results, ResultOf(t))
    /\ task' = [task EXCEPT ![t].pc = "exit"]
    /\ UNCHANGED <<store, file, harnessVars, endpoints, pc, cycle, load, clock, launched,
                   wg, closed, totals, saveErr>>

\* runTest returns: the deferred wg.Done() (line 1348).
TaskDone(t) ==
    /\ task[t].pc = "exit"
    /\ wg' = wg - 1
    /\ task' = [task EXCEPT ![t].pc = "done"]
    /\ UNCHANGED <<store, file, harnessVars, endpoints, pc, cycle, load, clock, launched,
                   results, closed, totals, saveErr>>

Init == InitMain

Next ==
    \/ MainLoad
    \/ BeginCycle
    \/ Launch
    \/ Wait
    \/ Close
    \/ Collect
    \/ Summary
    \/ Save
    \/ \E t \in Tasks : TaskStart(t)
    \/ \E t \in Tasks : ProbeReturn(t)
    \/ \E t \in Tasks : TaskGetBaseline(t)
    \/ \E t \in Tasks : TaskAddDataPoint(t)
    \/ \E t \in Tasks : TaskSend(t)
    \/ \E t \in Tasks : TaskDone(t)

Spec == Init /\ [][Next]_vars

----------------------------------------------------------------------------
(* One runHealthCheck, with the store methods taken statement by statement *)

\* The endpoint list of main (lines 1631-1676).
MainEndpoints == <<
    [Location |-> <<"Cape Town, ZA">>, Region |-> "af-south-1", Provider |-> <<"AWS">>,
     Hostname |-> "s3.af-south-1.amazonaws.com",
     TestPing |-> TRUE, TestDNS |-> TRUE, TestHTTP |-> TRUE],
    [Location |-> <<"São Paulo, BR">>, Region |-> "sa-east-1", Provider |-> <<"AWS">>,
     Hostname |-> "s3.sa-east-1.amazonaws.com",
     TestPing |-> TRUE, TestDNS |-> TRUE, TestHTTP |-> TRUE],
    [Location |-> <<"Paris, FR">>, Region |-> "eu-west-3", Provider |-> <<"AWS">>,
     Hostname |-> "s3.eu-west-3.amazonaws.com",
     TestPing |-> TRUE, TestDNS |-> TRUE, TestHTTP |-> TRUE],
    [Location |-> <<"Frankfurt, DE">>, Region |-> "eu-central-1", Provider |-> <<"AWS">>,
     Hostname |-> "s3.eu-central-1.amazonaws.com",
     TestPing |-> TRUE, TestDNS |-> TRUE, TestHTTP |-> TRUE],
    [Location |-> <<"London, UK">>, Region |-> "eu-west-2", Provider |-> <<"AWS">>,
     Hostname |-> "s3.eu-west-2.amazonaws.com",
     TestPing |-> TRUE, TestDNS |-> TRUE, TestHTTP |-> TRUE],
    [Location |-> <<"Stockholm, SE">>, Region |-> "eu-north-1", Provider |-> <<"AWS">>,
     Hostname |-> "s3.eu-north-1.amazonaws.com",
     TestPing |-> TRUE, TestDNS |-> TRUE, TestHTTP |-> TRUE],
    [Location |-> <<"Milan, IT">>, Region |-> "eu-south-1", Provider |-> <<"AWS">>,
     Hostname |-> "s3.eu-south-1.amazonaws.com",
     TestPing |-> TRUE, TestDNS |-> TRUE, TestHTTP |-> TRUE],
    [Location |-> <<"Dubai, AE">>, Region |-> "me-south-1", Provider |-> <<"AWS">>,
     Hostname |-> "s3.me-south-1.amazonaws.com",
     TestPing |-> TRUE, TestDNS |-> TRUE, TestHTTP |-> TRUE],
    [Location |-> <<"Riyadh, SA">>, Region |-> "me-central-1", Provider |-> <<"AWS">>,
     Hostname |-> "s3.me-central-1.amazonaws.com",
     TestPing |-> TRUE, TestDNS |-> TRUE, TestHTTP |-> TRUE],
    [Location |-> <<"Mumbai, IN">>, Region |-> "ap-south-1", Provider |-> <<"AWS">>,
     Hostname |-> "s3.ap-south-1.amazonaws.com",
     TestPing |-> TRUE, TestDNS |-> TRUE, TestHTTP |-> TRUE],
    [Location |-> <<"Hyderabad, IN">>, Region |-> "ap-south-2", Provider |-> <<"AWS">>,
     Hostname |-> "s3.ap-south-2.amazonaws.com",
     TestPing |-> TRUE, TestDNS |-> TRUE, TestHTTP |-> TRUE],
    [Location |-> <<"Singapore, SG">>, Region |-> "ap-southeast-1", Provider |-> <<"AWS">>,
     Hostname |-> "s3.ap-southeast-1.amazonaws.com",
     TestPing |-> TRUE, TestDNS |-> TRUE, TestHTTP |-> TRUE],
    [Location |-> <<"Jakarta, ID">>, Region |-> "ap-southeast-3", Provider |-> <<"AWS">>,
     Hostname |-> "s3.ap-southeast-3.amazonaws.com",
     TestPing |-> TRUE, TestDNS |-> TRUE, TestHTTP |-> TRUE],
    [Location |-> <<"Tokyo, JP">>, Region |-> "ap-northeast-1", Provider |-> <<"AWS">>,
     Hostname |-> "s3.ap-northeast-1.amazonaws.com",
     TestPing |-> TRUE, TestDNS |-> TRUE, TestHTTP |-> TRUE],
    [Location |-> <<"Seoul, KR">>, Region |-> "ap-northeast-2", Provider |-> <<"AWS">>,
     Hostname |-> "s3.ap-northeast-2.amazonaws.com",
     TestPing |-> TRUE, TestDNS |-> TRUE, TestHTTP |-> TRUE],
    [Location |-> <<"Osaka, JP">>, Region |-> "ap-northeast-3", Provider |-> <<"AWS">>,
     Hostname |-> "s3.ap-northeast-3.amazonaws.com",
     TestPing |-> TRUE, TestDNS |-> TRUE, TestHTTP |-> TRUE],
    [Location |-> <<"Sydney, AU">>, Region |-> "ap-southeast-2", Provider |-> <<"AWS">>,
     Hostname |-> "s3.ap-southeast-2.amazonaws.com",
     TestPing |-> TRUE, TestDNS |-> TRUE, TestHTTP |-> TRUE],
    [Location |-> <<"Melbourne, AU">>, Region |-> "ap-southeast-4", Provider |-> <<"AWS">>,
     Hostname |-> "s3.ap-southeast-4.amazonaws.com",
     TestPing |-> TRUE, TestDNS |-> TRUE, TestHTTP |-> TRUE],
    [Location |-> <<"Ashburn, VA">>, Region |-> "us-east-1", Provider |-> <<"AWS">>,
     Hostname |-> "s3.us-east-1.amazonaws.com",
     TestPing |-> TRUE, TestDNS |-> TRUE, TestHTTP |-> TRUE],
    [Location |-> <<"Columbus, OH">>, Region |-> "us-east-2", Provider |-> <<"AWS">>,
     Hostname |-> "s3.us-east-2.amazonaws.com",
     TestPing |-> TRUE, TestDNS |-> TRUE, TestHTTP |-> TRUE],
    [Location |-> <<"San Jose, CA">>, Region |-> "us-west-1", Provider |-> <<"AWS">>,
     Hostname |-> "s3.us-west-1.amazonaws.com",
     TestPing |-> TRUE, TestDNS |-> TRUE, TestHTTP |-> TRUE],
    [Location |-> <<"Portland, OR">>, Region |-> "us-west-2", Provider |-> <<"AWS">>,
     Hostname |-> "s3.us-west-2.amazonaws.com",
     TestPing |-> TRUE, TestDNS |-> TRUE, TestHTTP |-> TRUE],
    [Location |-> <<"Montreal, CA">>, Region |-> "ca-central-1", Provider |-> <<"AWS">>,
     Hostname |-> "s3.ca-central-1.amazonaws.com",
     TestPing |-> TRUE, TestDNS |-> TRUE, TestHTTP |-> TRUE] >>

\* An endpoint that differs from Paris in its hostname only.
ParisTwin == [Location |-> <<"Paris, FR">>, Region |-> "eu-west-3", Provider |-> <<"AWS">>,
              Hostname |-> "s3.dualstack.eu-west-3.amazonaws.com",
              TestPing |-> TRUE, TestDNS |-> FALSE, TestHTTP |-> FALSE]

\* Paris with the ping test only.
ParisPing == [Paris EXCEPT !.TestHTTP = FALSE]

\* The endpoint lists of the statement-level specification: two goroutines on
\* distinct keys, two goroutines on one key, an endpoint without tests beside
\* one with a test, and no test at all.
LockConfigs == {<<Paris>>, <<ParisPing, ParisTwin>>, <<Milan, ParisPing>>, <<Milan>>}

\* Ten ping measurements: a full window.
TenAt100 == [kind |-> "json",
             data |-> (PingKey :> [i \in 1..WindowSize |-> Rec(i, 90 + i)])]

\* The stores main may hold when a cycle begins.
LockStores == {LoadFromFile(NewHistoryStore, f).Services : f \in {Missing, ThreeAt100, TenAt100}}

\* runTest's locals and those of the store method it is in: dp is the slice
\* read by append, total the sum of the range loop of GetBaseline.
LockTask == [pc |-> "none", online |-> FALSE, responseTime |-> 0, resolvedIP |-> "",
             errMsg |-> "", timestamp |-> ZeroTime, baseline |-> 0, sampleCount |-> 0,
             trend |-> "", dp |-> <<>>, total |-> 0]

\* A store without mutual exclusion: Lock never waits.
LockNeverWaits(m) == TRUE

\* hs.mu.Lock() returns only when the mutex is free.
LockFree(m) == m = 0

\* What the statement-level store steps leave alone besides store, mu and task.
lockFrame == <<file, fresh, ret, added, ops, start, ticks, endpoints, pc, cycle, load,
               clock, launched, wg, results, closed, totals, saveErr>>

\* A GetBaseline that reads without taking the mutex.
GetBaselineEntersUnlocked(t) ==
    /\ task[t].pc = "baseline"
    /\ task' = [task EXCEPT ![t].pc = "gb.range"]
    /\ UNCHANGED <<store, mu, lockFrame>>

\* GetBaseline: hs.mu.Lock() (line 1243).
GetBaselineLock(t) ==
    /\ task[t].pc = "baseline"
    /\ LockFree(mu)
    /\ mu' = t
    /\ task' = [task EXCEPT ![t].pc = "gb.range"]
    /\ UNCHANGED <<store, lockFrame>>

\* A runTest that has appended its own measurement before the baseline is
\* taken: the lookup and the sum see it.
GetBaselineRangeWithOwn(t) ==
    /\ task[t].pc = "gb.range"
    /\ LET hs == IF task[t].online
                 THEN AddDataPoint(store, ServiceKey(t), task[t].timestamp,
                                   task[t].responseTime)
                 ELSE store
       IN  IF ServiceKey(t) \notin DOMAIN hs \/ Len(hs[ServiceKey(t)]) = 0
           THEN task' = [task EXCEPT ![t].baseline = 0, ![t].sampleCount = 0,
                                     ![t].pc = "gb.return"]
           ELSE task' = [task EXCEPT ![t].total = SumResponseTime(hs[ServiceKey(t)]),
                                     ![t].baseline = TruncDiv(SumResponseTime(hs[ServiceKey(t)]),
                                                              Len(hs[ServiceKey(t)])),
                                     ![t].sampleCount = Len(hs[ServiceKey(t)]),
                                     ![t].pc = "gb.return"]
    /\ UNCHANGED <<store, mu, lockFrame>>

\* GetBaseline: the lookup, the early return and the range loop (lines 1246-1254).
GetBaselineRange(t) ==
    /\ task[t].pc = "gb.range"
    /\ IF ServiceKey(t) \notin DOMAIN store \/ Len(store[ServiceKey(t)]) = 0
       THEN task' = [task EXCEPT ![t].baseline = 0, ![t].sampleCount = 0,
                                 ![t].pc = "gb.return"]
       ELSE task' = [task EXCEPT ![t].total = SumResponseTime(store[ServiceKey(t)]),
                                 ![t].pc = "gb.count"]
    /\ UNCHANGED <<store, mu, lockFrame>>

\* GetBaseline: count := len(history.DataPoints) and the quotient (lines 1256-1257).
GetBaselineCount(t) ==
    /\ task[t].pc = "gb.count"
    /\ task' = [task EXCEPT
                  ![t].baseline = TruncDiv(task[t].total, Len(store[ServiceKey(t)])),
                  ![t].sampleCount = Len(store[ServiceKey(t)]),
                  ![t].pc = "gb.return"]
    /\ UNCHANGED <<store, mu, lockFrame>>

\* GetBaseline returns: the deferred Unlock (line 1244), then CalculateTrend
\* on runTest's locals (line 1400).
GetBaselineReturn(t) ==
    /\ task[t].pc = "gb.return"
    /\ mu' = 0
    /\ task' = [task EXCEPT
                  ![t].trend = CalculateTrend(task[t].responseTime, task[t].baseline,
                                              task[t].sampleCount),
                  ![t].pc = AfterTrend(task[t].online)]
    /\ UNCHANGED <<store, lockFrame>>

\* AddDataPoint: hs.mu.Lock() (line 1220).
AddDataPointLock(t) ==
    /\ task[t].pc = "add"
    /\ LockFree(mu)
    /\ mu' = t
    /\ task' = [task EXCEPT ![t].pc = "add.entry"]
    /\ UNCHANGED <<store, lockFrame>>

\* An AddDataPoint that makes a new entry on every call.
AddDataPointEntryAlways(t) ==
    /\ task[t].pc = "add.entry"
    /\ store' = [k \in (DOMAIN store) \cup {ServiceKey(t)} |->
                    IF k = ServiceKey(t) THEN <<>> ELSE store[k]]
    /\ task' = [task EXCEPT ![t].pc = "add.read"]
    /\ UNCHANGED <<mu, lockFrame>>

\* AddDataPoint: the entry is created when the key is new (lines 1223-1228).
AddDataPointEntry(t) ==
    /\ task[t].pc = "add.entry"
    /\ store' = IF ServiceKey(t) \in DOMAIN store
                THEN store
                ELSE [k \in (DOMAIN store) \cup {ServiceKey(t)} |->
                         IF k = ServiceKey(t) THEN <<>> ELSE store[k]]
    /\ task' = [task EXCEPT ![t].pc = "add.read"]
    /\ UNCHANGED <<mu, lockFrame>>

\* AddDataPoint: append reads history.DataPoints (line 1231).
AddDataPointRead(t) ==
    /\ task[t].pc = "add.read"
    /\ task' = [task EXCEPT ![t].dp = store[ServiceKey(t)], ![t].pc = "add.append"]
    /\ UNCHANGED <<store, mu, lockFrame>>

\* An AddDataPoint that puts the new data point in front.
AddDataPointPrepend(t) ==
    /\ task[t].pc = "add.append"
    /\ store' = [store EXCEPT ![ServiceKey(t)] =
                    <<[Timestamp |-> task[t].timestamp,
                       ResponseTime |-> task[t].responseTime]>> \o task[t].dp]
    /\ task' = [task EXCEPT ![t].dp = <<>>, ![t].pc = "add.truncate"]
    /\ UNCHANGED <<mu, lockFrame>>

\* AddDataPoint: the appended slice is assigned to history.DataPoints
\* (lines 1231-1234).
AddDataPointAppend(t) ==
    /\ task[t].pc = "add.append"
    /\ store' = [store EXCEPT ![ServiceKey(t)] =
                    Append(task[t].dp, [Timestamp |-> task[t].timestamp,
                                        ResponseTime |-> task[t].responseTime])]
    /\ task' = [task EXCEPT ![t].dp = <<>>, ![t].pc = "add.truncate"]
    /\ UNCHANGED <<mu, lockFrame>>

\* AddDataPoint: the window (lines 1236-1238).
AddDataPointTruncate(t) ==
    /\ task[t].pc = "add.truncate"
    /\ store' = IF Len(store[ServiceKey(t)]) > WindowSize
                THEN [store EXCEPT ![ServiceKey(t)] = LastN(@, WindowSize)]
                ELSE store
    /\ task' = [task EXCEPT ![t].pc = "add.return"]
    /\ UNCHANGED <<mu, lockFrame>>

\* An AddDataPoint that returns without unlocking.
AddDataPointReturnLocked(t) ==
    /\ task[t].pc = "add.return"
    /\ task' = [task EXCEPT ![t].pc = "send"]
    /\ UNCHANGED <<store, mu, lockFrame>>

\* AddDataPoint returns: the deferred Unlock (line 1221).
AddDataPointReturn(t) ==
    /\ task[t].pc = "add.return"
    /\ mu' = 0
    /\ task' = [task EXCEPT ![t].pc = "send"]
    /\ UNCHANGED <<store, lockFrame>>

\* main has loaded the snapshot and called runHealthCheck.
InitLock ==
    /\ store \in LockStores
    /\ start = store
    /\ file = Missing
    /\ fresh = NewHistoryStore
    /\ ret = [op |-> "none"]
    /\ added = [k \in StoreKeys |-> <<>>]
    /\ ops = 0
    /\ mu = 0
    /\ ticks = 0
    /\ endpoints \in LockConfigs
    /\ pc = "launch"
    /\ cycle = 1
    /\ load = [kind |-> "none", err |-> FALSE]
    /\ clock = WindowSize + 1
    /\ launched = 0
    /\ wg = 0
    /\ results = <<>>
    /\ closed = FALSE
    /\ task = [t \in 1..Len(TaskList(endpoints)) |-> LockTask]
    /\ totals = ZeroTotals
    /\ saveErr = FALSE

NextLock ==
    \/ Launch
    \/ Wait
    \/ Close
    \/ Collect
    \/ Summary
    \/ Save
    \/ \E t \in Tasks : TaskStart(t)
    \/ \E t \in Tasks : ProbeReturn(t)
    \/ \E t \in Tasks : GetBaselineLock(t)
    \/ \E t \in Tasks : GetBaselineRange(t)
    \/ \E t \in Tasks : GetBaselineCount(t)
    \/ \E t \in Tasks : GetBaselineReturn(t)
    \/ \E t \in Tasks : AddDataPointLock(t)
    \/ \E t \in Tasks : AddDataPointEntry(t)
    \/ \E t \in Tasks : AddDataPointRead(t)
    \/ \E t \in Tasks : AddDataPointAppend(t)
    \/ \E t \in Tasks : AddDataPointTruncate(t)
    \/ \E t \in Tasks : AddDataPointReturn(t)
    \/ \E t \in Tasks : TaskSend(t)
    \/ \E t \in Tasks : TaskDone(t)

SpecLock == InitLock /\ [][NextLock]_vars

\* The goroutine numbers of the largest endpoint list.
LockTaskIds == UNION {1..Len(TaskList(eps)) : eps \in LockConfigs}

\* The next statement of goroutine t.
RunTestStep(t) ==
    \/ TaskStart(t)
    \/ ProbeReturn(t)
    \/ GetBaselineLock(t)
    \/ GetBaselineRange(t)
    \/ GetBaselineCount(t)
    \/ GetBaselineReturn(t)
    \/ AddDataPointLock(t)
    \/ AddDataPointEntry(t)
    \/ AddDataPointRead(t)
    \/ AddDataPointAppend(t)
    \/ AddDataPointTruncate(t)
    \/ AddDataPointReturn(t)
    \/ TaskSend(t)
    \/ TaskDone(t)

\* The next statement of runHealthCheck.
RunHealthCheckStep == Launch \/ Wait \/ Close \/ Collect \/ Summary \/ Save

\* Fair scheduling: the Go scheduler runs every goroutine that can run, main's
\* included, and every probe returns (each has its timeout).
FairLock ==
    /\ InitLock
    /\ [][NextLock]_vars
    /\ WF_vars(RunHealthCheckStep)
    /\ \A t \in LockTaskIds : WF_vars(t \in Tasks /\ RunTestStep(t))

----------------------------------------------------------------------------
(* main's load, one runHealthCheck and its save, every store method taken  *)
(* statement by statement under the mutex                                  *)

\* The holder of hs.mu when main's goroutine has it (tasks are 1, 2, ...).
MainGoroutine == -1

\* The snapshot files main can find.
MutexFiles == {Missing, Unreadable, Malformed, ThreeAt100}

\* What the steps of LoadFromFile and SaveToFile leave alone.
mainFrame == <<fresh, ret, added, ops, ticks, endpoints, clock, launched, wg, results,
               closed, task, totals>>

\* LoadFromFile: hs.mu.Lock() (line 1147).
LoadFromFileLock ==
    /\ pc = "load"
    /\ LockFree(mu)
    /\ mu' = MainGoroutine
    /\ pc' = "load.read"
    /\ UNCHANGED <<store, file, load, saveErr, cycle, start, mainFrame>>

\* A LoadFromFile whose Unlock is not deferred: the return for a missing
\* file leaves without it.
LoadFromFileReadLeavesLocked ==
    /\ pc = "load.read"
    /\ IF file.kind = "missing"
       THEN /\ load' = [kind |-> file.kind, err |-> FALSE]
            /\ start' = store
            /\ cycle' = 1
            /\ pc' = "launch"
       ELSE IF file.kind = "unreadable"
       THEN /\ load' = [kind |-> file.kind, err |-> TRUE]
            /\ pc' = "load.return"
            /\ UNCHANGED <<start, cycle>>
       ELSE /\ pc' = "load.unmarshal"
            /\ UNCHANGED <<load, start, cycle>>
    /\ UNCHANGED <<store, file, mu, saveErr, mainFrame>>

\* LoadFromFile: ioutil.ReadFile and its two error returns (lines 1150-1156).
LoadFromFileRead ==
    /\ pc = "load.read"
    /\ IF file.kind = "missing"
       THEN /\ load' = [kind |-> file.kind, err |-> FALSE]
            /\ pc' = "load.return"
       ELSE IF file.kind = "unreadable"
       THEN /\ load' = [kind |-> file.kind, err |-> TRUE]
            /\ pc' = "load.return"
       ELSE /\ pc' = "load.unmarshal"
            /\ UNCHANGED load
    /\ UNCHANGED <<store, file, mu, saveErr, cycle, start, mainFrame>>

\* LoadFromFile: json.Unmarshal and its error return (lines 1163-1165).
LoadFromFileUnmarshal ==
    /\ pc = "load.unmarshal"
    /\ IF file.kind = "malformed"
       THEN /\ load' = [kind |-> file.kind, err |-> TRUE]
            /\ pc' = "load.return"
       ELSE /\ pc' = "load.merge"
            /\ UNCHANGED load
    /\ UNCHANGED <<store, file, mu, saveErr, cycle, start, mainFrame>>

\* LoadFromFile: the entries of the file replace those of the store
\* (lines 1167-1183).
LoadFromFileMerge ==
    /\ pc = "load.merge"
    /\ store' = MergeRawData(store, file.data)
    /\ load' = [kind |-> file.kind, err |-> FALSE]
    /\ pc' = "load.return"
    /\ UNCHANGED <<file, mu, saveErr, cycle, start, mainFrame>>

\* LoadFromFile returns: the deferred Unlock (line 1148); main goes on to
\* its first runHealthCheck whatever was returned.
LoadFromFileReturn ==
    /\ pc = "load.return"
    /\ mu' = 0
    /\ start' = store
    /\ cycle' = 1
    /\ pc' = "launch"
    /\ UNCHANGED <<store, file, load, saveErr, mainFrame>>

\* SaveToFile: hs.mu.Lock() (line 1188).
SaveToFileLock ==
    /\ pc = "save"
    /\ LockFree(mu)
    /\ mu' = MainGoroutine
    /\ pc' = "save.write"
    /\ UNCHANGED <<store, file, load, saveErr, cycle, start, mainFrame>>

\* SaveToFile: the copy, MarshalIndent and WriteFile, which succeeds or
\* fails (lines 1191-1215).
SaveToFileWrite ==
    /\ pc = "save.write"
    /\ \/ file' = SaveToFile(store) /\ saveErr' = FALSE
       \/ file' \in FailedWrite(file) /\ saveErr' = TRUE
    /\ pc' = "save.return"
    /\ UNCHANGED <<store, mu, load, cycle, start, mainFrame>>

\* SaveToFile returns: the deferred Unlock (line 1189).
SaveToFileReturn ==
    /\ pc = "save.return"
    /\ mu' = 0
    /\ pc' = "ready"
    /\ UNCHANGED <<store, file, load, saveErr, cycle, start, mainFrame>>

InitMutex ==
    /\ store = NewHistoryStore
    /\ start = NewHistoryStore
    /\ file \in MutexFiles
    /\ fresh = NewHistoryStore
    /\ ret = [op |-> "none"]
    /\ added = [k \in StoreKeys |-> <<>>]
    /\ ops = 0
    /\ mu = 0
    /\ ticks = 0
    /\ endpoints \in LockConfigs
    /\ pc = "load"
    /\ cycle = 0
    /\ load = [kind |-> "none", err |-> FALSE]
    /\ clock = WindowSize + 1
    /\ launched = 0
    /\ wg = 0
    /\ results = <<>>
    /\ closed = FALSE
    /\ task = [t \in 1..Len(TaskList(endpoints)) |-> LockTask]
    /\ totals = ZeroTotals
    /\ saveErr = FALSE

NextMutex ==
    \/ LoadFromFileLock
    \/ LoadFromFileRead
    \/ LoadFromFileUnmarshal
    \/ LoadFromFileMerge
    \/ LoadFromFileReturn
    \/ Launch
    \/ Wait
    \/ Close
    \/ Collect
    \/ Summary
    \/ SaveToFileLock
    \/ SaveToFileWrite
    \/ SaveToFileReturn
    \/ \E t \in Tasks : RunTestStep(t)

SpecMutex == InitMutex /\ [][NextMutex]_vars

----------------------------------------------------------------------------
(* main's loop with its ticker *)

\* The buffer of ticker.C: time.NewTicker makes a channel of capacity 1.
TickerCap == 1

\* The interval has elapsed: the ticker sends a tick, which is dropped when
\* the channel is full (the receiver is slow).
Tick ==
    /\ pc # "load"
    /\ ticks' = IF ticks < TickerCap THEN ticks + 1 ELSE ticks
    /\ UNCHANGED <<store, file, fresh, ret, added, ops, mu, start, cycleVars>>

\* main, line 1684: the first runHealthCheck is called without a tick.
FirstCycle ==
    /\ cycle = 0
    /\ BeginCycle

\* A loop that starts a cycle on every tick, whether or not the previous
\* runHealthCheck has returned.
TickerCycleWithoutReturn ==
    /\ pc # "load"
    /\ cycle >= 1
    /\ cycle < MaxCycles
    /\ ticks > 0
    /\ ticks' = ticks - 1
    /\ cycle' = cycle + 1
    /\ results' = <<>>
    /\ closed' = FALSE
    /\ wg' = 0
    /\ launched' = 0
    /\ task' = [t \in 1..Len(TaskList(endpoints)) |-> IdleTask]
    /\ totals' = ZeroTotals
    /\ pc' = "launch"
    /\ UNCHANGED <<store, file, fresh, ret, added, ops, mu, start, endpoints, load, clock,
                   saveErr>>

\* A loop that takes the next tick while the cycle's save is still to come.
TickerCycleBeforeSave ==
    /\ pc \in {"save", "ready"}
    /\ cycle >= 1
    /\ cycle < MaxCycles
    /\ ticks > 0
    /\ ticks' = ticks - 1
    /\ cycle' = cycle + 1
    /\ results' = <<>>
    /\ closed' = FALSE
    /\ wg' = 0
    /\ launched' = 0
    /\ task' = [t \in 1..Len(TaskList(endpoints)) |-> IdleTask]
    /\ totals' = ZeroTotals
    /\ pc' = "launch"
    /\ UNCHANGED <<store, file, fresh, ret, added, ops, mu, start, endpoints, load, clock,
                   saveErr>>

\* main, lines 1686-1690: back at `for range ticker.C`, main receives a tick
\* and calls runHealthCheck.
TickerCycle ==
    /\ pc = "ready"
    /\ cycle >= 1
    /\ cycle < MaxCycles
    /\ ticks > 0
    /\ ticks' = ticks - 1
    /\ cycle' = cycle + 1
    /\ results' = <<>>
    /\ closed' = FALSE
    /\ wg' = 0
    /\ launched' = 0
    /\ task' = [t \in 1..Len(TaskList(endpoints)) |-> IdleTask]
    /\ totals' = ZeroTotals
    /\ pc' = "launch"
    /\ UNCHANGED <<store, file, fresh, ret, added, ops, mu, start, endpoints, load, clock,
                   saveErr>>

\* main on one endpoint with two tests, no snapshot on disk.
InitTicker == InitMain /\ endpoints = <<Paris>> /\ file = Missing

NextTicker ==
    \/ MainLoad
    \/ Tick
    \/ FirstCycle
    \/ TickerCycle
    \/ Launch
    \/ Wait
    \/ Close
    \/ Collect
    \/ Summary
    \/ Save
    \/ \E t \in Tasks : TaskStart(t)
    \/ \E t \in Tasks : ProbeReturn(t)
    \/ \E t \in Tasks : TaskGetBaseline(t)
    \/ \E t \in Tasks : TaskAddDataPoint(t)
    \/ \E t \in Tasks : TaskSend(t)
    \/ \E t \in Tasks : TaskDone(t)

SpecTicker == InitTicker /\ [][NextTicker]_vars

----------------------------------------------------------------------------
(* The classifier applied to drawn inputs *)

Currents     == {-160, 0, 1, 40, 49, 50, 51, 100, 149, 150, 151, 160}
Baselines    == {-100, 0, 3, 100}
SampleCounts == {0, 1, 2, 3, 5, 10}

\* trend := CalculateTrend(current, baseline, sampleCount)
CallCalculateTrend ==
    /\ \E c \in Currents, b \in Baselines, n \in SampleCounts :
          ret' = [op |-> "CalculateTrend", current |-> c, baseline |-> b,
                  sampleCount |-> n, trend |-> CalculateTrend(c, b, n)]
    /\ UNCHANGED <<store, file, fresh, added, ops, cycleVars, auxVars>>

InitClassify == StoreInit /\ file = Missing

NextClassify == CallCalculateTrend

SpecClassify == InitClassify /\ [][NextClassify]_vars

----------------------------------------------------------------------------
(* One endpoint with one test, probed cycle after cycle from an empty store *)

\* How many cycles are followed.
MaxProbes == 5

\* The launch loop of the next cycle starts the task again (lines 1515-1528);
\* the result of the cycle before is kept in the log of the key.
Relaunch ==
    /\ task[1].pc = "send"
    /\ ops < MaxProbes
    /\ ops' = ops + 1
    /\ added' = [added EXCEPT ![ServiceKey(1)] = Append(@, ResultOf(1))]
    /\ task' = [task EXCEPT ![1] = [IdleTask EXCEPT !.pc = "start"]]
    /\ cycle' = cycle + 1
    /\ UNCHANGED <<store, file, fresh, ret, auxVars, endpoints, pc, load, clock, launched,
                   wg, results, closed, totals, saveErr>>

InitWarmup ==
    /\ store = NewHistoryStore
    /\ file = Missing
    /\ fresh = NewHistoryStore
    /\ ret = [op |-> "none"]
    /\ added = [k \in StoreKeys |-> <<>>]
    /\ ops = 0
    /\ mu = 0
    /\ start = NewHistoryStore
    /\ ticks = 0
    /\ endpoints = <<ParisPing>>
    /\ pc = "launch"
    /\ cycle = 1
    /\ load = [kind |-> "missing", err |-> FALSE]
    /\ clock = 1
    /\ launched = 1
    /\ wg = 1
    /\ results = <<>>
    /\ closed = FALSE
    /\ task = <<[IdleTask EXCEPT !.pc = "start"]>>
    /\ totals = ZeroTotals
    /\ saveErr = FALSE

NextWarmup ==
    \/ TaskStart(1)
    \/ ProbeReturn(1)
    \/ TaskGetBaseline(1)
    \/ TaskAddDataPoint(1)
    \/ Relaunch

SpecWarmup == InitWarmup /\ [][NextWarmup]_vars

----------------------------------------------------------------------------
(* The basic monitor (src/main.go): one runHealthCheck over a service list *)

TypeHTTP == "http"
TypePing == "ping"

\* Services of the two known types and one of a type the switch does not know.
Google    == [Name |-> "Google", URL |-> "https://www.google.com", Host |-> "",
              Type |-> TypeHTTP, Insecure |-> FALSE]
GoogleDNS == [Name |-> "Google DNS", URL |-> "", Host |-> "8.8.8.8",
              Type |-> TypePing, Insecure |-> FALSE]
Printer   == [Name |-> "Printer", URL |-> "", Host |-> "192.168.3.9",
              Type |-> "snmp", Insecure |-> FALSE]

ServiceLists == {<<>>, <<Google>>, <<GoogleDNS, Printer>>, <<Printer, Google>>,
                 <<Google, GoogleDNS>>}

\* What client.Get can do: an error, or a response after elapsed.
HTTPGets == {[err |-> e, msg |-> IF e THEN "timeout" ELSE "", elapsed |-> d]
                : e \in BOOLEAN, d \in Durations}

\* What the ping command and the dial after it can do: the command fails and
\* the dial to port 80 fails or not; the command succeeds and its output
\* has an "avg = " figure (0 when the figure does not parse) or has none.
PingRuns ==
    {[err |-> TRUE, dialErr |-> d, matched |-> FALSE, avg |-> 0, elapsed |-> e]
        : d \in BOOLEAN, e \in Durations}
    \cup {[err |-> FALSE, dialErr |-> FALSE, matched |-> TRUE, avg |-> a, elapsed |-> e]
            : a \in {0, 12}, e \in Durations}
    \cup {[err |-> FALSE, dialErr |-> FALSE, matched |-> FALSE, avg |-> 0, elapsed |-> e]
            : e \in Durations}

\* No probe was made.
NoRun == [err |-> FALSE, msg |-> "", elapsed |-> 0]

\* checkHTTP (lines 52-72).
checkHTTP(get) ==
    IF get.err
    THEN [online |-> FALSE, responseTime |-> 0, errMsg |-> get.msg]
    ELSE [online |-> TRUE, responseTime |-> get.elapsed, errMsg |-> ""]

\* A checkPing without the dial to port 80.
checkPingNoFallback(run) ==
    IF run.err
    THEN [online |-> FALSE, responseTime |-> 0, errMsg |-> "Host unreachable"]
    ELSE IF run.matched
    THEN [online |-> TRUE, responseTime |-> run.avg, errMsg |-> ""]
    ELSE [online |-> TRUE, responseTime |-> TruncDiv(run.elapsed, 3), errMsg |-> ""]

\* checkPing (lines 75-101).
checkPing(run) ==
    IF run.err
    THEN IF ~run.dialErr
         THEN [online |-> TRUE, responseTime |-> run.elapsed, errMsg |-> ""]
         ELSE [online |-> FALSE, responseTime |-> 0, errMsg |-> "Host unreachable"]
    ELSE IF run.matched
    THEN [online |-> TRUE, responseTime |-> run.avg, errMsg |-> ""]
    ELSE [online |-> TRUE, responseTime |-> TruncDiv(run.elapsed, 3), errMsg |-> ""]

\* The runs the switch of checkServiceConcurrent can make for a type.
RunsOf(type) ==
    IF type = TypeHTTP THEN HTTPGets
    ELSE IF type = TypePing THEN PingRuns
    ELSE {NoRun}

\* The switch of checkServiceConcurrent (lines 107-118).
Switch(type, run) ==
    IF type = TypeHTTP THEN checkHTTP(run)
    ELSE IF type = TypePing THEN checkPing(run)
    ELSE [online |-> FALSE, responseTime |-> 0, errMsg |-> "Unknown service type"]

\* A checkServiceConcurrent goroutine that has not been started.
IdleCheck == [pc |-> "none", online |-> FALSE, responseTime |-> 0, errMsg |-> "",
              run |-> NoRun]

\* runHealthCheck's locals as declared (lines 199-201), with what has been
\* printed and written to the log.
ZeroCounts == [allResults |-> <<>>, totalResponseTime |-> 0, successCount |-> 0,
               avgResponseTime |-> 0, printed |-> <<>>, logged |-> <<>>]

\* What the loops and goroutines of the basic monitor leave alone.
basicFrame == <<store, file, harnessVars, endpoints, cycle, load, saveErr>>

\* runHealthCheck: wg.Add(1); go checkServiceConcurrent(...) (lines 190-193).
BasicLaunch ==
    /\ pc = "launch"
    /\ launched < Len(endpoints)
    /\ wg' = wg + 1
    /\ task' = [task EXCEPT ![launched + 1].pc = "switch"]
    /\ launched' = launched + 1
    /\ UNCHANGED <<pc, clock, results, closed, totals, basicFrame>>

\* checkServiceConcurrent: the switch on svc.Type (lines 111-118).
BasicSwitch(t) ==
    /\ task[t].pc = "switch"
    /\ \E run \in RunsOf(endpoints[t].Type) :
          task' = [task EXCEPT
                      ![t].run = run,
                      ![t].online = Switch(endpoints[t].Type, run).online,
                      ![t].responseTime = Switch(endpoints[t].Type, run).responseTime,
                      ![t].errMsg = Switch(endpoints[t].Type, run).errMsg,
                      ![t].pc = "send"]
    /\ UNCHANGED <<pc, clock, launched, wg, results, closed, totals, basicFrame>>

\* checkServiceConcurrent: the result is built with time.Now() and sent
\* (lines 120-128); the send waits while the buffer is full.
BasicSend(t) ==
    /\ task[t].pc = "send"
    /\ ~closed
    /\ Len(results) < Len(endpoints)
    /\ results' = Append(results,
                         [Service |-> endpoints[t], Online |-> task[t].online,
                          ResponseTime |-> task[t].responseTime,
                          Error |-> task[t].errMsg, Timestamp |-> Now(clock)])
    /\ clock' = clock + 1
    /\ task' = [task EXCEPT ![t].pc = "exit"]
    /\ UNCHANGED <<pc, launched, wg, closed, totals, basicFrame>>

\* checkServiceConcurrent returns: the deferred wg.Done() (line 105).
BasicDone(t) ==
    /\ task[t].pc = "exit"
    /\ wg' = wg - 1
    /\ task' = [task EXCEPT ![t].pc = "done"]
    /\ UNCHANGED <<pc, clock, launched, results, closed, totals, basicFrame>>

\* runHealthCheck: wg.Wait() returns (line 195).
BasicWait ==
    /\ pc = "launch"
    /\ launched = Len(endpoints)
    /\ wg = 0
    /\ pc' = "close"
    /\ UNCHANGED <<clock, launched, wg, results, closed, task, totals, basicFrame>>

\* runHealthCheck: close(results) (line 196).
BasicClose ==
    /\ pc = "close"
    /\ closed' = TRUE
    /\ pc' = "collect"
    /\ UNCHANGED <<clock, launched, wg, results, task, totals, basicFrame>>

\* A range loop that adds the duration of every result to the total.
BasicTallySumsAll(tt, r, logOpen) ==
    [tt EXCEPT
        !.allResults = Append(@, r),
        !.printed = Append(@, r),
        !.logged = IF logOpen THEN Append(@, r) ELSE @,
        !.successCount = @ + 1,
        !.totalResponseTime = @ + r.ResponseTime]

\* One iteration of `for result := range results` (lines 204-213):
\* printResult, writeToLog (nothing when logFile is nil) and the counters.
BasicTally(tt, r, logOpen) ==
    [tt EXCEPT
        !.allResults = Append(@, r),
        !.printed = Append(@, r),
        !.logged = IF logOpen THEN Append(@, r) ELSE @,
        !.successCount = IF r.Online THEN @ + 1 ELSE @,
        !.totalResponseTime = IF r.Online THEN @ + r.ResponseTime ELSE @]

BasicCollect ==
    /\ pc = "collect"
    /\ results # <<>>
    /\ totals' = BasicTally(totals, Head(results), ~load.err)
    /\ results' = Tail(results)
    /\ UNCHANGED <<pc, clock, launched, wg, closed, task, basicFrame>>

\* runHealthCheck: the range loop ends on the closed, drained channel and the
\* average is computed (lines 216-221).
BasicSummary ==
    /\ pc = "collect"
    /\ results = <<>>
    /\ closed
    /\ totals' = [totals EXCEPT
                     !.avgResponseTime =
                         IF totals.successCount > 0
                         THEN TruncDiv(totals.totalResponseTime, totals.successCount)
                         ELSE 0]
    /\ pc' = "ready"
    /\ UNCHANGED <<clock, launched, wg, results, closed, task, basicFrame>>

\* main has opened the log file or not (lines 237-246) and calls
\* runHealthCheck (line 267).
InitBasic ==
    /\ store = NewHistoryStore
    /\ start = NewHistoryStore
    /\ file = Missing
    /\ fresh = NewHistoryStore
    /\ ret = [op |-> "none"]
    /\ added = [k \in StoreKeys |-> <<>>]
    /\ ops = 0
    /\ mu = 0
    /\ ticks = 0
    /\ endpoints \in ServiceLists
    /\ pc = "launch"
    /\ cycle = 1
    /\ load \in {[kind |-> "log", err |-> e] : e \in BOOLEAN}
    /\ clock = 1
    /\ launched = 0
    /\ wg = 0
    /\ results = <<>>
    /\ closed = FALSE
    /\ task = [t \in 1..Len(endpoints) |-> IdleCheck]
    /\ totals = ZeroCounts
    /\ saveErr = FALSE

NextBasic ==
    \/ BasicLaunch
    \/ BasicWait
    \/ BasicClose
    \/ BasicCollect
    \/ BasicSummary
    \/ \E t \in Tasks : BasicSwitch(t)
    \/ \E t \in Tasks : BasicSend(t)
    \/ \E t \in Tasks : BasicDone(t)

SpecBasic == InitBasic /\ [][NextBasic]_vars

----------------------------------------------------------------------------
(* The service key character by character, and its two parsers            *)
(* (src/export_csv.go lines 460-500, src/dashboard.go lines 175-193)      *)

\* The longest location drawn; providers are one shorter.
MaxLen == 3

\* Characters of locations and providers: a letter, the space, the hyphen
\* and the opening bracket.
Alphabet == {"a", " ", "-", "["}

Strings(n) == UNION {[1..k -> Alphabet] : k \in 0..n}

\* The characters of a test type.
CharsOf(testType) ==
    CASE testType = TestTypePing -> <<"P", "I", "N", "G">>
      [] testType = TestTypeDNS  -> <<"D", "N", "S">>
      [] testType = TestTypeHTTP -> <<"H", "T", "T", "P">>

\* strings.ToLower on one character.
LowerChar(c) ==
    CASE c = "P" -> "p" [] c = "I" -> "i" [] c = "N" -> "n" [] c = "G" -> "g"
      [] c = "D" -> "d" [] c = "S" -> "s" [] c = "H" -> "h" [] c = "T" -> "t"
      [] OTHER -> c

ToLower(str) == [i \in 1..Len(str) |-> LowerChar(str[i])]

\* fmt.Sprintf("%s [%s] - %s", Location, Provider, testType) (line 1396)
\* as characters.
ServiceKeyChars(location, provider, testType) ==
    location \o <<" ", "[">> \o provider \o <<"]", " ", "-", " ">> \o CharsOf(testType)

\* The positions p of name where " - " ends (name[p-2..p], counted from 1).
SeparatorEnds(name) ==
    {q \in 3..Len(name) : name[q - 2] = " " /\ name[q - 1] = "-" /\ name[q] = " "}

Max(S) == CHOOSE x \in S : \A y \in S : y <= x

\* The positions of character c in name.
PositionsOf(name, c) == {q \in 1..Len(name) : name[q] = c}

\* strings.TrimSpace
RECURSIVE TrimSpace(_)
TrimSpace(str) ==
    IF str = <<>> THEN str
    ELSE IF Head(str) = " " THEN TrimSpace(Tail(str))
    ELSE IF str[Len(str)] = " " THEN TrimSpace(SubSeq(str, 1, Len(str) - 1))
    ELSE str

\* parseServiceName of the dashboard (src/dashboard.go lines 175-193):
\* strings.LastIndex for " - ", strings.Index for "[" and for "]" from
\* there, strings.TrimSpace on the location.
parseServiceNameDashboard(name) ==
    LET seps  == SeparatorEnds(name)
        found == seps # {}
        type  == IF found THEN ToLower(SubSeq(name, Max(seps) + 1, Len(name)))
                 ELSE <<"o", "t", "h", "e", "r">>
        rest  == IF found THEN SubSeq(name, 1, Max(seps) - 3) ELSE name
        opens == PositionsOf(rest, "[")
        strt  == IF opens = {} THEN 0 ELSE CHOOSE q \in opens : \A r \in opens : q <= r
        close == {q \in PositionsOf(rest, "]") : q >= strt}
        end   == IF close = {} THEN 0 ELSE CHOOSE q \in close : \A r \in close : q <= r
    IN  IF strt > 0 /\ end > 0
        THEN [location |-> TrimSpace(SubSeq(rest, 1, strt - 1)),
              provider |-> SubSeq(rest, strt + 1, end - 1),
              testType |-> type, panic |-> FALSE]
        ELSE [location |-> rest, provider |-> <<"N", "/", "A">>,
              testType |-> type, panic |-> FALSE]

\* parseServiceName of the CSV exporter (src/export_csv.go lines 461-500):
\* the loop from the right for " - " (only at index i >= 3), the scan that
\* keeps the last '[' before the first ']', and the slices; name[:start-1]
\* is out of range when the bracket is the first character.
parseServiceNameCSV(name) ==
    LET seps  == {q \in SeparatorEnds(name) : q >= 4}
        found == Len(name) >= 2 /\ seps # {}
        type  == IF found THEN SubSeq(name, Max(seps) + 1, Len(name))
                 ELSE <<"O", "T", "H", "E", "R">>
        rest  == IF found THEN SubSeq(name, 1, Max(seps) - 3) ELSE name
        close == PositionsOf(rest, "]")
        end   == IF close = {} THEN 0 ELSE CHOOSE q \in close : \A r \in close : q <= r
        opens == {q \in PositionsOf(rest, "[") : end = 0 \/ q < end}
        strt  == IF opens = {} THEN 0 ELSE Max(opens)
    IN  IF strt > 0 /\ end > strt
        THEN IF strt = 1
             THEN [location |-> rest, provider |-> SubSeq(rest, strt + 1, end - 1),
                   testType |-> type, panic |-> TRUE]
             ELSE [location |-> SubSeq(rest, 1, strt - 2),
                   provider |-> SubSeq(rest, strt + 1, end - 1),
                   testType |-> type, panic |-> FALSE]
        ELSE [location |-> rest, provider |-> <<"N", "/", "A">>,
              testType |-> type, panic |-> FALSE]

\* The monitor builds the key of a drawn location, provider and test type,
\* and both parsers read it.
CallParseServiceName ==
    /\ ret.op = "input"
    /\ ret' = [op |-> "parseServiceName", location |-> ret.location,
               provider |-> ret.provider, testType |-> ret.testType,
               csv |-> parseServiceNameCSV(
                           ServiceKeyChars(ret.location, ret.provider, ret.testType)),
               dashboard |-> parseServiceNameDashboard(
                                 ServiceKeyChars(ret.location, ret.provider, ret.testType))]
    /\ UNCHANGED <<store, file, fresh, added, ops, cycleVars, auxVars>>

InitParse ==
    /\ NoProgram
    /\ store = NewHistoryStore
    /\ file = Missing
    /\ fresh = NewHistoryStore
    /\ added = [k \in StoreKeys |-> <<>>]
    /\ ops = 0
    /\ \E location \in Strings(MaxLen), provider \in Strings(MaxLen - 1),
          testType \in {TestTypePing, TestTypeDNS, TestTypeHTTP} :
          ret = [op |-> "input", location |-> location, provider |-> provider,
                 testType |-> testType]

NextParse == CallParseServiceName

SpecParse == InitParse /\ [][NextParse]_vars

----------------------------------------------------------------------------
(* Properties of the store *)

Min(a, b) == IF a <= b THEN a ELSE b

\* C1. Window bound: on a store that starts empty, after n AddDataPoint calls
\* for a key the stored sequence has length min(n, 10) and is the last
\* min(n, 10) measurements added for that key, in the order added.
C1_WindowBound ==
    \A k \in StoreKeys :
        LET n == Len(added[k])
            m == Min(n, 10)
        IN  IF n = 0
            THEN k \notin DOMAIN store
            ELSE /\ k \in DOMAIN store
                 /\ Len(store[k]) = m
                 /\ \A i \in 1..m : store[k][i] = added[k][n - m + i]

\* A key received 11 measurements and the oldest one was evicted.
C1_Witness ==
    /\ Len(added[PingKey]) = 11
    /\ Len(store[PingKey]) = 10
    /\ added[PingKey][1] # added[PingKey][2]
    /\ store[PingKey][1] = added[PingKey][2]

\* The sum of a sequence of data points, by index.
RECURSIVE SumTo(_, _)
SumTo(points, i) == IF i = 0 THEN 0 ELSE SumTo(points, i - 1) + points[i].ResponseTime

Abs(x) == IF x >= 0 THEN x ELSE -x

\* q is s / n truncated toward zero (n > 0).
IsTruncatedQuotient(q, s, n) ==
    /\ Abs(q) * n <= Abs(s)
    /\ Abs(s) < (Abs(q) + 1) * n
    /\ (q > 0 => s > 0)
    /\ (q < 0 => s < 0)

\* C6. Baseline correctness: GetBaseline(key) returns (sum of the stored
\* durations / count, truncating; count) for a key with measurements and (0, 0)
\* for an unknown or empty key, and the call leaves the store as it was.
C6_BaselineCorrect ==
    /\ [](ret.op = "GetBaseline" =>
            IF ret.key \in DOMAIN store /\ Len(store[ret.key]) > 0
            THEN /\ ret.count = Len(store[ret.key])
                 /\ IsTruncatedQuotient(ret.baseline,
                                        SumTo(store[ret.key], Len(store[ret.key])),
                                        Len(store[ret.key]))
            ELSE ret.baseline = 0 /\ ret.count = 0)
    /\ [][ret'.op = "GetBaseline" => store' = store]_vars

\* A baseline taken over measurements whose sum is negative and not a multiple
\* of the count (truncation and flooring differ), and one over an empty key.
C6_Witness ==
    /\ ret.op = "GetBaseline"
    /\ ret.key = PingKey
    /\ ret.count = 2
    /\ ret.baseline = -1

\* C9. Snapshot round-trip: a successful SaveToFile followed by LoadFromFile
\* into a fresh store yields the key set of the saved store and, per key, the
\* same (timestamp instant, duration) sequence in the same order.
C9_RoundTrip ==
    (ret.op = "LoadFresh" /\ ret.saved) =>
        /\ ~ret.err
        /\ DOMAIN fresh = DOMAIN store
        /\ \A k \in DOMAIN store :
              /\ Len(fresh[k]) = Len(store[k])
              /\ \A i \in 1..Len(store[k]) :
                    /\ fresh[k][i].Timestamp.wall = store[k][i].Timestamp.wall
                    /\ fresh[k][i].ResponseTime = store[k][i].ResponseTime

\* A store holding two different measurements under one key, taken with
\* time.Now(), was saved and loaded back.
C9_Witness ==
    /\ ret.op = "LoadFresh"
    /\ ret.saved
    /\ PingKey \in DOMAIN store
    /\ Len(store[PingKey]) = 2
    /\ store[PingKey][1] # store[PingKey][2]
    /\ store[PingKey][1].Timestamp.mono

----------------------------------------------------------------------------
(* Properties of the classifier *)

\* C7. Classifier rule: BASELINE when sampleCount < 3 or baseline = 0; otherwise
\* degraded ("UP") when the sample is more than 50% above the baseline,
\* improved ("DOWN") when it is more than 50% below, STEADY otherwise; a delta
\* of exactly +50 or -50 is STEADY.  delta > 50 is stated without the quotient:
\* 2*current > 3*baseline for a positive baseline, reversed for a negative one.
C7_ClassifierRule ==
    ret.op = "CalculateTrend" =>
        LET c == ret.current
            b == ret.baseline
            n == ret.sampleCount
        IN  /\ (n < 3 \/ b = 0) => ret.trend = "BASELINE"
            /\ (n >= 3 /\ b > 0) =>
                  /\ (2 * c > 3 * b) => ret.trend = "UP"
                  /\ (2 * c < b) => ret.trend = "DOWN"
                  /\ (2 * c <= 3 * b /\ 2 * c >= b) => ret.trend = "STEADY"
            /\ (n >= 3 /\ b < 0) =>
                  /\ (2 * c < 3 * b) => ret.trend = "UP"
                  /\ (2 * c > b) => ret.trend = "DOWN"
                  /\ (2 * c >= 3 * b /\ 2 * c <= b) => ret.trend = "STEADY"

\* The classifier was applied to the sample exactly 50% below its baseline.
C7_Witness ==
    /\ ret.op = "CalculateTrend"
    /\ ret.current = 50
    /\ ret.baseline = 100
    /\ ret.sampleCount = 5
    /\ ret.trend = "STEADY"

\* C8 as stated: classify(150, 100, 5) is the degraded label.
C8_AsStated ==
    (ret.op = "CalculateTrend" /\ ret.current = 150 /\ ret.baseline = 100
        /\ ret.sampleCount = 5) => ret.trend = "UP"

\* C8, amended. A sample exactly 50% over the baseline is STEADY; the smallest
\* degraded sample over a baseline of 100 is 151.
C8_Boundary ==
    (ret.op = "CalculateTrend" /\ ret.baseline = 100 /\ ret.sampleCount = 5) =>
        /\ (ret.current = 150 => ret.trend = "STEADY")
        /\ (ret.current = 151 => ret.trend = "UP")

\* classify(150, 100, 5) was evaluated.
C8_Witness ==
    /\ ret.op = "CalculateTrend"
    /\ ret.current = 150
    /\ ret.baseline = 100
    /\ ret.sampleCount = 5

----------------------------------------------------------------------------
(* Properties of a cycle *)

TestTypes == {TestTypeDNS, TestTypePing, TestTypeHTTP}

\* The flag of endpoint e that enables test type k.
Flag(e, k) ==
    CASE k = TestTypeDNS  -> e.TestDNS
      [] k = TestTypePing -> e.TestPing
      [] k = TestTypeHTTP -> e.TestHTTP

\* The enabled (endpoint, test type) pairs of the endpoint list.
EnabledPairs ==
    {p \in (1..Len(endpoints)) \X TestTypes : Flag(endpoints[p[1]], p[2])}

\* Every result collected by the range loop, group by group.
Collected == totals.pingResults \o totals.dnsResults \o totals.httpResults

\* runHealthCheck is past its range loop.
CycleOver == pc = "save" \/ (pc = "ready" /\ cycle > 0)

\* The probe of task t has returned.
Probed(t) == task[t].pc \notin {"none", "start", "probe"}

\* Task t has got its baseline and trend.
Classified(t) == task[t].pc \in {"add", "send", "exit", "done"}

AllDone == \A t \in Tasks : task[t].pc = "done"

\* The measurement of task t is in the history of its key.
InHistory(t) ==
    /\ ServiceKey(t) \in DOMAIN store
    /\ \E i \in 1..Len(store[ServiceKey(t)]) :
          store[ServiceKey(t)][i] =
              [Timestamp |-> task[t].timestamp, ResponseTime |-> task[t].responseTime]

\* Task t took a step.
Stepped(t) == t \in DOMAIN task' /\ task'[t].pc # task[t].pc

RECURSIVE SumOnline(_)
SumOnline(n) ==
    IF n = 0 THEN 0
    ELSE SumOnline(n - 1) + (IF task[n].online THEN task[n].responseTime ELSE 0)

\* C2. Failure isolation: no step of a task whose probe failed changes the
\* History Store; at the end of the cycle the failed tasks are not among the
\* successes and add nothing to the summed response time, every task has
\* produced its result, and every successful task's measurement is in the
\* history of its key while no failed task's is.
C2_FailureIsolation ==
    /\ [][\A t \in Tasks :
             (Stepped(t) /\ task'[t].pc \in {"baseline", "add", "send", "exit", "done"}
                 /\ ~task'[t].online) => store' = store]_vars
    /\ [](CycleOver =>
             /\ totals.totalTests = Len(task)
             /\ totals.successfulTests = Cardinality({t \in Tasks : task[t].online})
             /\ totals.totalResponseTime = SumOnline(Len(task))
             /\ \A t \in Tasks : task[t].online <=> InHistory(t))

\* A cycle ended in which the ping probe failed and the HTTP probe succeeded.
C2_Witness ==
    /\ CycleOver
    /\ endpoints = <<Paris>>
    /\ ~task[1].online
    /\ task[2].online
    /\ totals.totalTests = 2
    /\ totals.successfulTests = 1
    /\ InHistory(2)

\* C3. Cycle completeness: with M enabled test-kind flags, one runHealthCheck
\* run launches M tasks and collects M results, exactly one for each enabled
\* (endpoint, test kind) pair.
C3_CycleComplete ==
    CycleOver =>
        /\ launched = Cardinality(EnabledPairs)
        /\ totals.totalTests = Cardinality(EnabledPairs)
        /\ Len(Collected) = Cardinality(EnabledPairs)
        /\ \A p \in EnabledPairs :
              Cardinality({j \in 1..Len(Collected) :
                              /\ Collected[j].Endpoint = endpoints[p[1]]
                              /\ Collected[j].TestType = p[2]}) = 1

\* A cycle over two endpoints, one of them with no test kind enabled, ended
\* with its single result.
C3_Witness ==
    /\ CycleOver
    /\ endpoints = <<Tokyo, Milan>>
    /\ Len(Collected) = 1
    /\ Collected[1].TestType = TestTypeDNS

\* C4 as stated: no task reads its baseline, classifies or appends until every
\* dispatched task of the cycle has completed its probe.
C4_AsStated ==
    \A t \in Tasks :
        Classified(t) => \A u \in Tasks : task[u].pc \notin {"start", "probe"}

\* C4, amended. A task reads its baseline, classifies and appends only after
\* its own probe has returned (other tasks' probes may still be running); the
\* orchestrator closes the channel and aggregates only after every task of the
\* cycle has completed.
C4_OwnProbeThenBarrier ==
    /\ \A t \in Tasks :
          ~Probed(t) => /\ task[t].trend = ""
                        /\ task[t].sampleCount = 0
                        /\ ~InHistory(t)
    /\ \A t \in Tasks : (Classified(t) \/ InHistory(t)) => Probed(t)
    /\ (pc \in {"close", "collect", "save"} \/ totals # ZeroTotals) => AllDone

\* A task has appended its measurement while another task's probe is running.
C4_Witness ==
    /\ Len(task) = 2
    /\ task[1].pc = "send"
    /\ InHistory(1)
    /\ task[2].pc = "probe"

\* C5. No partial aggregation and no early persist: no result is received,
\* grouped or counted and SaveToFile is not called until every dispatched task
\* of the cycle has completed.
C5_BarrierBeforeAggregate ==
    /\ []((pc \in {"close", "collect", "save"} \/ totals # ZeroTotals) =>
             (AllDone /\ wg = 0 /\ launched = Len(task)))
    /\ [][(pc = "collect" /\ (totals' # totals \/ results' # results)) => AllDone]_vars
    /\ [][(file' # file \/ saveErr' # saveErr \/ (pc = "save" /\ pc' # "save"))
             => (pc = "save" /\ AllDone)]_vars

\* The first of two results is being counted, one of a failed probe.
C5_Witness ==
    /\ pc = "collect"
    /\ Len(task) = 2
    /\ totals.totalTests = 1
    /\ Len(results) = 1
    /\ ~task[1].online

\* C10. Load errors: LoadFromFile of a missing file returns no error, of a
\* malformed file returns an error; both leave the store as it was (empty), and
\* main goes on to run its cycles with that store.
C10_LoadErrors ==
    /\ [](load.kind = "missing" => ~load.err)
    /\ [](load.kind = "malformed" => load.err)
    /\ [][(pc = "load" /\ file.kind \in {"missing", "malformed"}) =>
             (store' = store /\ store' = NewHistoryStore /\ pc' = "ready")]_vars
    /\ []((load.kind \in {"missing", "malformed"} /\ pc = "ready" /\ cycle < MaxCycles)
             => ENABLED BeginCycle)

\* After a malformed snapshot the second cycle is running on a store that the
\* first cycle filled.
C10_Witness ==
    /\ load.kind = "malformed"
    /\ load.err
    /\ cycle = 2
    /\ pc = "launch"
    /\ store # NewHistoryStore

\* C11. Save failure is non-fatal: whether SaveToFile succeeds or fails, the
\* save step leaves the in-memory store as it was and runHealthCheck returns to
\* main; after a failed save the next cycle is dispatched, and its tasks read
\* their baselines from that in-memory store.
C11_SaveNonFatal ==
    /\ [][pc = "save" => (store' = store /\ pc' = "ready")]_vars
    /\ []((saveErr /\ pc = "ready" /\ cycle < MaxCycles) => ENABLED BeginCycle)
    /\ [][(pc = "ready" /\ pc' # "ready") =>
             (pc' = "launch" /\ cycle' = cycle + 1 /\ store' = store)]_vars
    /\ [][\A t \in Tasks :
             (task[t].pc = "baseline" /\ task'[t].pc # "baseline") =>
                 <<task'[t].baseline, task'[t].sampleCount>>
                     = GetBaseline(store, ServiceKey(t))]_vars

\* The first cycle's save failed on a missing file, and a task of the second
\* cycle has read a baseline over the measurement the first cycle kept in memory.
C11_Witness ==
    /\ load.kind = "missing"
    /\ saveErr
    /\ file.kind # "json"
    /\ cycle = 2
    /\ \E t \in Tasks : task[t].sampleCount = 1 /\ task[t].baseline \in Durations

----------------------------------------------------------------------------
(* Properties of the store under concurrent calls *)

\* The orders in which the goroutines of S can be taken one at a time.
Perms(S) ==
    {f \in [1..Cardinality(S) -> S] : \A i, j \in 1..Cardinality(S) : f[i] = f[j] => i = j}

\* The AddDataPoint calls of the goroutines of order, made one at a time on hs.
RECURSIVE Replay(_, _)
Replay(hs, order) ==
    IF order = <<>> THEN hs
    ELSE Replay(AddDataPoint(hs, ServiceKey(Head(order)), task[Head(order)].timestamp,
                             task[Head(order)].responseTime),
                Tail(order))

\* The goroutine is between the Lock and the return of AddDataPoint.
InAdd(t) ==
    task[t].pc \in {"add.entry", "add.read", "add.append", "add.truncate", "add.return"}

\* The goroutine's AddDataPoint call has returned.
Added(t) == task[t].online /\ task[t].pc \in {"send", "exit", "done"}

\* Number of goroutines of S whose key is k.
OnKey(S, k) == Cardinality({t \in S : ServiceKey(t) = k})

PriorLen(k) == IF k \in DOMAIN start THEN Len(start[k]) ELSE 0

\* C12. Concurrent add safety: whenever no AddDataPoint call is under way, the
\* store is what the calls that have returned give when made one at a time in
\* some order on the store the cycle began with, and each key holds
\* min(10, prior length + adds to that key) entries.
C12_AddsSerialize ==
    (\A t \in Tasks : ~InAdd(t)) =>
        LET done == {t \in Tasks : Added(t)}
        IN  /\ \E order \in Perms(done) : store = Replay(start, order)
            /\ \A k \in DOMAIN store :
                  Len(store[k]) = Min(WindowSize, PriorLen(k) + OnKey(done, k))
            /\ \A k \in DOMAIN start : k \in DOMAIN store

\* Two goroutines have added to the same key, whose window was full: the one
\* launched first added last.
C12_Witness ==
    /\ endpoints = <<ParisPing, ParisTwin>>
    /\ \A t \in Tasks : task[t].pc = "done" /\ task[t].online
    /\ PingKey \in DOMAIN start
    /\ Len(start[PingKey]) = WindowSize
    /\ Len(store[PingKey]) = WindowSize
    /\ store[PingKey][WindowSize].Timestamp = task[1].timestamp
    /\ store[PingKey][WindowSize - 1].Timestamp = task[2].timestamp
    /\ store[PingKey][1] = start[PingKey][3]

\* The stores reached from the cycle's starting store by making, one at a time
\* and in some order, some of the AddDataPoint calls that have been entered.
SerialStores ==
    LET begun == {u \in Tasks : InAdd(u) \/ Added(u)}
    IN  {Replay(start, order) : order \in UNION {Perms(S) : S \in SUBSET begun}}

\* C13. Atomic baseline snapshot: the (mean, count) GetBaseline is about to
\* return are those of the key's sequence as it is in the store at that moment,
\* no AddDataPoint is then between its Lock and its return, and that sequence is
\* one a serial order of the adds gives: before or after each add, never between
\* the steps of one.
C13_AtomicBaseline ==
    \A t \in Tasks :
        task[t].pc = "gb.return" =>
            /\ <<task[t].baseline, task[t].sampleCount>> = GetBaseline(store, ServiceKey(t))
            /\ \A u \in Tasks : ~InAdd(u)
            /\ \E hs \in SerialStores :
                  <<task[t].baseline, task[t].sampleCount>> = GetBaseline(hs, ServiceKey(t))

\* A goroutine that took its timestamp first returns the baseline over the
\* three loaded measurements and the one the other goroutine has just added.
C13_Witness ==
    /\ endpoints = <<ParisPing, ParisTwin>>
    /\ task[1].pc = "gb.return"
    /\ task[1].timestamp.wall < task[2].timestamp.wall
    /\ task[2].pc = "send"
    /\ task[2].responseTime = 160
    /\ task[1].sampleCount = 4
    /\ task[1].baseline = 115

\* C14. Length invariant: after any sequence of LoadFromFile, AddDataPoint,
\* GetBaseline and SaveToFile every key's stored sequence has at most 10
\* entries, and every baseline count returned is at most 10.
C14_LengthInvariant ==
    /\ \A k \in DOMAIN store : Len(store[k]) <= WindowSize
    /\ ret.op = "GetBaseline" => ret.count <= WindowSize

----------------------------------------------------------------------------
(* Properties of one cycle, store methods taken statement by statement *)

\* The store the cycle began with, loaded from the three-measurement snapshot.
StartThreeAt100 == LoadFromFile(NewHistoryStore, ThreeAt100).Services

\* C15. Pre-update baseline: when GetBaseline returns to a task, the task's own
\* measurement is not in the store and the pair returned is that of the key's
\* history as stored; the trend is CalculateTrend of the sample against that
\* pair, the result carries that baseline, and the measurement enters the
\* history only after the classification. With 3 prior measurements averaging
\* 100 and a successful sample of 160 the trend is "UP", the baseline 100, and
\* the history then holds 4 entries, the newest 160.
C15_PreUpdateBaseline ==
    /\ \A t \in Tasks :
          task[t].pc = "gb.return" =>
              /\ ~InHistory(t)
              /\ <<task[t].baseline, task[t].sampleCount>> = GetBaseline(store, ServiceKey(t))
    /\ \A t \in Tasks :
          task[t].trend # "" =>
              task[t].trend = CalculateTrend(task[t].responseTime, task[t].baseline,
                                             task[t].sampleCount)
    /\ \A t \in Tasks : InHistory(t) => task[t].trend # ""
    /\ \A i \in 1..Len(results) :
          \E t \in Tasks : /\ results[i].Timestamp = task[t].timestamp
                           /\ results[i].Baseline = task[t].baseline
                           /\ results[i].Trend = task[t].trend
    /\ \A t \in Tasks :
          (endpoints = <<Paris>> /\ Added(t)) =>
              /\ <<task[t].baseline, task[t].sampleCount>> = GetBaseline(start, ServiceKey(t))
              /\ store[ServiceKey(t)] =
                    AddDataPoint(start, ServiceKey(t), task[t].timestamp,
                                 task[t].responseTime)[ServiceKey(t)]
    /\ (/\ endpoints = <<Paris>>
        /\ start = StartThreeAt100
        /\ Added(1)
        /\ task[1].responseTime = 160) =>
           /\ task[1].trend = "UP"
           /\ task[1].baseline = 100
           /\ task[1].sampleCount = 3
           /\ Len(store[PingKey]) = 4
           /\ store[PingKey][4].ResponseTime = 160

\* The ping task of Paris measured 160 against three prior measurements
\* averaging 100, and its result is in the channel.
C15_Witness ==
    /\ endpoints = <<Paris>>
    /\ start = StartThreeAt100
    /\ task[1].pc = "done"
    /\ task[1].responseTime = 160
    /\ \E i \in 1..Len(results) :
          /\ results[i].TestType = TestTypePing
          /\ results[i].Trend = "UP"
          /\ results[i].Baseline = 100
    /\ Len(store[PingKey]) = 4
    /\ store[PingKey][4].ResponseTime = 160

\* The (endpoint, test type) pairs of t and u differ: the endpoints in
\* location, region, provider or hostname, or the test types.
DifferentPairs(t, u) ==
    \/ TaskOf(t).Endpoint.Location # TaskOf(u).Endpoint.Location
    \/ TaskOf(t).Endpoint.Region # TaskOf(u).Endpoint.Region
    \/ TaskOf(t).Endpoint.Provider # TaskOf(u).Endpoint.Provider
    \/ TaskOf(t).Endpoint.Hostname # TaskOf(u).Endpoint.Hostname
    \/ TaskOf(t).TestType # TaskOf(u).TestType

\* The pairs of t and u have the same location, provider and test type.
SameTriple(t, u) ==
    /\ TaskOf(t).Endpoint.Location = TaskOf(u).Endpoint.Location
    /\ TaskOf(t).Endpoint.Provider = TaskOf(u).Endpoint.Provider
    /\ TaskOf(t).TestType = TaskOf(u).TestType

\* The keys of the endpoint list of main, pair by pair.
MainKey(i, k) == ServiceKeyOf(MainEndpoints[i].Location, MainEndpoints[i].Provider, k)

InStoreMethod(t) ==
    task[t].pc \in {"gb.range", "gb.count", "gb.return",
                    "add.entry", "add.read", "add.append", "add.truncate", "add.return"}

\* C17. Task independence: the mutex is held only by a goroutine between the
\* Lock and the return of a store method, never during a probe; and every
\* goroutine that has started and not finished can take its next step whatever
\* the others are doing (a probe that has not returned included), except that
\* at a Lock it may wait for the goroutine inside a store method, which can
\* itself step. No goroutine waits for another to complete.
C17_TaskIndependence ==
    /\ \A t \in Tasks : mu = t => InStoreMethod(t)
    /\ mu # 0 => mu \in Tasks
    /\ \A t \in Tasks :
          task[t].pc \notin {"none", "done"} =>
              \/ ENABLED RunTestStep(t)
              \/ /\ task[t].pc \in {"baseline", "add"}
                 /\ mu \in Tasks \ {t}
                 /\ ENABLED RunTestStep(mu)

\* The second goroutine has added its measurement, delivered its result and
\* finished while the probe of the first has not returned.
C17_Witness ==
    /\ endpoints = <<ParisPing, ParisTwin>>
    /\ task[1].pc = "probe"
    /\ task[2].pc = "done"
    /\ InHistory(2)
    /\ Len(results) = 1

----------------------------------------------------------------------------
(* Properties of main's loop *)

\* A task of the running cycle has been started and has not finished.
Running(t) == task[t].pc \notin {"none", "done"}

\* C18 as stated: when a probe of cycle k has not returned and the next tick is
\* there, main can dispatch cycle k+1.
C18_DispatchDespiteStuckProbe ==
    (/\ cycle >= 1
     /\ cycle < MaxCycles
     /\ ticks > 0
     /\ \E t \in Tasks : task[t].pc = "probe") => ENABLED TickerCycle

\* C18, amended. A probe of cycle k that has not returned holds back the
\* barrier of cycle k and with it cycle k+1: runHealthCheck is called again only
\* when the previous call has returned (every task done, results aggregated,
\* save attempted) and a tick is waiting; a tick that arrives meanwhile waits in
\* the channel, and main answers it as soon as the cycle has returned.
C18_DispatchAfterReturn ==
    /\ [][cycle' # cycle =>
             /\ cycle' = cycle + 1
             /\ pc = "ready"
             /\ pc' = "launch"
             /\ AllDone
             /\ cycle >= 1 => (ticks > 0 /\ ticks' = ticks - 1)]_vars
    /\ []((\E t \in Tasks : Running(t)) => ~ENABLED TickerCycle)
    /\ []((pc = "ready" /\ cycle >= 1 /\ cycle < MaxCycles /\ ticks > 0)
             => ENABLED TickerCycle)
    /\ [][(ticks > 0 /\ pc # "ready") => ticks' = ticks]_vars

\* The tick of the next cycle is waiting while one probe of the first cycle
\* has not returned and the other task has finished.
C18_Witness ==
    /\ cycle = 1
    /\ ticks > 0
    /\ pc = "launch"
    /\ task[1].pc = "probe"
    /\ task[2].pc = "done"

\* runHealthCheck has returned with every result counted.
CycleReturned ==
    /\ pc = "ready"
    /\ AllDone
    /\ launched = Len(task)
    /\ wg = 0
    /\ mu = 0
    /\ closed
    /\ results = <<>>
    /\ totals.totalTests = Len(task)

\* C19. Cycle liveness: under fair scheduling, with every probe returning, the
\* cycle passes the barrier, counts every result, attempts the save and
\* returns; and until it has returned some step of the cycle can always be
\* taken (no deadlock on the channel, the WaitGroup or the mutex).
C19_CycleLiveness ==
    /\ <>[]CycleReturned
    /\ [](pc # "ready" => ENABLED NextLock)
    /\ [](pc = "save" => (AllDone /\ totals.totalTests = Len(task)))

\* The cycle of two goroutines on one key has returned, its save written.
C19_Witness ==
    /\ endpoints = <<ParisPing, ParisTwin>>
    /\ CycleReturned
    /\ ~saveErr
    /\ file = SaveToFile(store)
    /\ PingKey \in DOMAIN store
    /\ Len(store[PingKey]) = 2

\* No two tasks of the cycle have the same location, provider and test type.
DistinctTriples == \A t, u \in Tasks : SameTriple(t, u) => t = u

\* The tasks whose probe succeeded.
OnlineTasks == {t \in Tasks : task[t].online}

\* The results of test type k, as runTest builds them.
ResultsOfKind(k) == {ResultOf(t) : t \in {u \in Tasks : TaskOf(u).TestType = k}}

\* The elements of a sequence.
Range(seq) == {seq[i] : i \in 1..Len(seq)}

\* C20. Deterministic classification: when the tasks of the cycle have
\* pairwise distinct service keys, whatever the interleaving, each task's
\* baseline and trend are those its measurement gets against the store the
\* cycle began with, the store at the end is that store with each successful
\* task's measurement added (in any order: all orders give the same store), and
\* the statistics are the count, successes, sum and mean of the tasks' outcomes.
C20_Deterministic ==
    DistinctTriples =>
        /\ \A t \in Tasks :
              task[t].trend # "" =>
                  /\ <<task[t].baseline, task[t].sampleCount>>
                        = GetBaseline(start, ServiceKey(t))
                  /\ task[t].trend =
                        CalculateTrend(task[t].responseTime,
                                       GetBaseline(start, ServiceKey(t))[1],
                                       GetBaseline(start, ServiceKey(t))[2])
        /\ AllDone =>
              \A order \in Perms(OnlineTasks) : store = Replay(start, order)
        /\ pc \in {"save", "ready"} =>
              /\ totals.totalTests = Len(task)
              /\ totals.successfulTests = Cardinality(OnlineTasks)
              /\ totals.totalResponseTime = SumOnline(Len(task))
              /\ totals.avgResponseTime =
                    (IF OnlineTasks = {} THEN 0
                     ELSE TruncDiv(SumOnline(Len(task)), Cardinality(OnlineTasks)))
              /\ Range(totals.pingResults) = ResultsOfKind(TestTypePing)
              /\ Range(totals.dnsResults) = ResultsOfKind(TestTypeDNS)
              /\ Range(totals.httpResults) = ResultsOfKind(TestTypeHTTP)

\* The HTTP task, launched second, took its timestamp, added and delivered
\* first; both probes succeeded over the three-measurement store and the cycle
\* has returned.
C20_Witness ==
    /\ endpoints = <<Paris>>
    /\ DistinctTriples
    /\ start = StartThreeAt100
    /\ pc = "ready"
    /\ task[1].online /\ task[2].online
    /\ task[2].timestamp.wall < task[1].timestamp.wall
    /\ task[1].trend = "UP"
    /\ task[2].trend = "BASELINE"
    /\ totals.successfulTests = 2

\* The timestamps of a sequence of data points never go back.
Chronological(dps) ==
    \A i, j \in 1..Len(dps) : i < j => dps[i].Timestamp.wall <= dps[j].Timestamp.wall

\* Every stored timestamp was read from the clock before now.
BeforeNow(dps) == \A i \in 1..Len(dps) : dps[i].Timestamp.wall < clock

C22_ZeroTasks ==
    /\ Len(task) = Cardinality(EnabledPairs)
    /\ \A t \in Tasks : Flag(TaskOf(t).Endpoint, TaskOf(t).TestType)
    /\ \A i \in 1..Len(results) : Flag(results[i].Endpoint, results[i].TestType)
    /\ EnabledPairs = {} =>
          /\ task = <<>> /\ results = <<>> /\ wg = 0 /\ store = start
          /\ pc # "ready" => ENABLED NextLock
          /\ totals.totalTests = 0 /\ totals.successfulTests = 0
          /\ totals.avgResponseTime = 0
          /\ SuccessRate(totals) = "NaN"
          /\ pc = "ready" => (saveErr \/ file = SaveToFile(store))

\* The cycle of the one endpoint without tests has returned, its save written.
C22_Witness ==
    /\ endpoints = <<Milan>>
    /\ pc = "ready"
    /\ closed
    /\ totals = ZeroTotals
    /\ ~saveErr
    /\ file = SaveToFile(store)

\* The results among the first n of seq that are online, and their durations summed.
RECURSIVE CountOnlineResults(_, _)
CountOnlineResults(seq, n) ==
    IF n = 0 THEN 0
    ELSE CountOnlineResults(seq, n - 1) + (IF seq[n].Online THEN 1 ELSE 0)

RECURSIVE SumOnlineResults(_, _)
SumOnlineResults(seq, n) ==
    IF n = 0 THEN 0
    ELSE SumOnlineResults(seq, n - 1) + (IF seq[n].Online THEN seq[n].ResponseTime ELSE 0)

\* C23. Cycle statistics: while and after the results are collected the total
\* is the number of results collected, the success count the number of them
\* with Online set, and the summed time the sum of their durations; at the end
\* of the cycle the total is the number of tasks M and the mean is the summed
\* time divided (truncating) by the success count, or 0 without successes.
C23_Statistics ==
    /\ totals.totalTests = Len(Collected)
    /\ totals.successfulTests = CountOnlineResults(Collected, Len(Collected))
    /\ totals.totalResponseTime = SumOnlineResults(Collected, Len(Collected))
    /\ pc \in {"save", "ready"} =>
          /\ totals.totalTests = Len(task)
          /\ Range(Collected) = {ResultOf(t) : t \in Tasks}
          /\ IF totals.successfulTests = 0
             THEN totals.avgResponseTime = 0
             ELSE IsTruncatedQuotient(totals.avgResponseTime,
                                      SumOnlineResults(Collected, Len(Collected)),
                                      totals.successfulTests)

\* A cycle of two successful probes, of 45 and 160, has ended: the mean of
\* 205 over 2 is 102.
C23_Witness ==
    /\ endpoints = <<Paris>>
    /\ pc = "save"
    /\ totals.totalTests = 2
    /\ totals.successfulTests = 2
    /\ totals.totalResponseTime = 205
    /\ totals.avgResponseTime = 102

\* The labels the switch of printResult knows (lines 1439-1452): "UP" is the
\* degraded and "DOWN" the improved trend.
TrendLabels == {"BASELINE", "STEADY", "UP", "DOWN"}

\* C24. Trend label vocabulary: the trend of every result, sent or collected,
\* is one of BASELINE, STEADY, UP (degraded) and DOWN (improved); a task has no
\* label only until GetBaseline has returned to it.
C24_TrendVocabulary ==
    /\ \A i \in 1..Len(results) : results[i].Trend \in TrendLabels
    /\ \A i \in 1..Len(Collected) : Collected[i].Trend \in TrendLabels
    /\ \A t \in Tasks :
          IF task[t].pc \in {"none", "start", "probe", "baseline",
                             "gb.range", "gb.count", "gb.return"}
          THEN task[t].trend = ""
          ELSE task[t].trend \in TrendLabels

\* Over the full window averaging 95 both goroutines have delivered: one
\* result is degraded (160), the other improved (45).
C24_Witness ==
    /\ endpoints = <<ParisPing, ParisTwin>>
    /\ Len(results) = 2
    /\ \E i, j \in 1..2 : results[i].Trend = "UP" /\ results[j].Trend = "DOWN"
    /\ \A i \in 1..2 : results[i].Online

----------------------------------------------------------------------------
(* Properties of the grouping *)

\* Number of endpoints of the list with test type k enabled.
EnabledOfKind(k) == Cardinality({p \in EnabledPairs : p[2] = k})

\* The group the range loop keeps for test type k.
GroupOf(k) ==
    CASE k = TestTypePing -> totals.pingResults
      [] k = TestTypeDNS  -> totals.dnsResults
      [] k = TestTypeHTTP -> totals.httpResults

\* C25. Grouping by test kind: every result the range loop has received is in
\* exactly one group, that of its own test type, so the group sizes sum to the
\* number received; when the loop has ended they sum to M, each group holds the
\* results of the tasks of its type, once each, and its size is the number of
\* endpoints with that type enabled.
C25_Grouping ==
    /\ \A k \in TestTypes : \A i \in 1..Len(GroupOf(k)) : GroupOf(k)[i].TestType = k
    /\ Len(totals.pingResults) + Len(totals.dnsResults) + Len(totals.httpResults)
          = totals.totalTests
    /\ \A i, j \in 1..Len(Collected) : Collected[i] = Collected[j] => i = j
    /\ (pc = "save" \/ (pc = "ready" /\ cycle > 0)) =>
          /\ totals.totalTests = Len(task)
          /\ \A k \in TestTypes :
                /\ Len(GroupOf(k)) = EnabledOfKind(k)
                /\ Range(GroupOf(k)) = ResultsOfKind(k)

\* The cycle over Paris has ended with one result in the ping group, one in
\* the HTTP group and none in the DNS group.
C25_Witness ==
    /\ endpoints = <<Paris>>
    /\ pc = "save"
    /\ Len(totals.pingResults) = 1
    /\ Len(totals.httpResults) = 1
    /\ Len(totals.dnsResults) = 0
    /\ totals.pingResults[1].TestType = TestTypePing
    /\ totals.httpResults[1].TestType = TestTypeHTTP

\* The shape of a result, as the claim has it.
WellShaped(r) ==
    /\ ~r.Online => (r.ResponseTime = 0 /\ r.Error # "")
    /\ r.Online => r.Error = ""
    /\ (r.ResolvedIP # "" /\ ~r.Online) => r.TestType = TestTypePing

\* C26. Failed result shape: every result of a failed probe has Online false,
\* a zero ResponseTime and a non-empty Error, and every result of a successful
\* probe has Online true and an empty Error; so have the locals of every task
\* whose probe has returned. Only a ping that failed after its DNS step carries
\* a resolved address in a failed result.
C26_ResultShape ==
    /\ \A i \in 1..Len(results) : WellShaped(results[i])
    /\ \A i \in 1..Len(Collected) : WellShaped(Collected[i])
    /\ \A t \in Tasks : Probed(t) => WellShaped(ResultOf(t))

\* Both results of Paris are in the channel: the ping failed after its DNS
\* step, the HTTP request failed.
C26_Witness ==
    /\ endpoints = <<Paris>>
    /\ Len(results) = 2
    /\ \A i \in 1..2 : ~results[i].Online /\ results[i].ResponseTime = 0
    /\ \E i \in 1..2 : /\ results[i].TestType = TestTypePing
                       /\ results[i].ResolvedIP # ""
                       /\ results[i].Error = "ping failed"
    /\ \E i \in 1..2 : results[i].TestType = TestTypeHTTP /\ results[i].Error = "timeout"

\* The sequence of key k in hs, empty when hs has no entry for k.
SeqOf(hs, k) == IF k \in DOMAIN hs THEN hs[k] ELSE <<>>

\* How many data points of dps are the measurement of task t.
Occurrences(dps, t) ==
    Cardinality({i \in 1..Len(dps) :
                    dps[i] = [Timestamp |-> task[t].timestamp,
                              ResponseTime |-> task[t].responseTime]})

\* The tasks that have entered AddDataPoint for key k.
BegunOn(k) == {t \in Tasks : ServiceKey(t) = k /\ (InAdd(t) \/ Added(t))}

SuccessesBefore(log, i) == Cardinality({j \in 1..(i - 1) : log[j].Online})

\* C28. Warm-up: from a key with no history, the results of the first three
\* successful probes of the key (0, 1 and 2 measurements stored before them)
\* carry BASELINE whatever their durations; a result with another label comes
\* after at least three successful probes and has a non-zero baseline; and
\* the classifier gives BASELINE for a zero baseline at any count.
C28_WarmUp ==
    /\ \A i \in 1..Len(added[PingKey]) :
          LET r == added[PingKey][i]
              n == SuccessesBefore(added[PingKey], i)
          IN  /\ (r.Online /\ n < MinSamples) => r.Trend = "BASELINE"
              /\ r.Trend # "BASELINE" => (n >= MinSamples /\ r.Baseline # 0)
    /\ task[1].pc \in {"add", "send"} =>
          /\ task[1].sampleCount =
                Min(WindowSize, SuccessesBefore(added[PingKey], Len(added[PingKey]) + 1))
          /\ task[1].sampleCount < MinSamples => task[1].trend = "BASELINE"
    /\ \A c \in Currents, n \in SampleCounts : CalculateTrend(c, 0, n) = "BASELINE"

\* Three successful probes of 45 then one of 160: the third of four logged
\* results would be far above its baseline and is BASELINE; the fourth
\* successful probe is labelled UP.
C28_Witness ==
    /\ Len(added[PingKey]) = 4
    /\ \A i \in 1..4 : added[PingKey][i].Online
    /\ added[PingKey][1].ResponseTime = 45
    /\ added[PingKey][2].ResponseTime = 45
    /\ added[PingKey][3].ResponseTime = 160
    /\ added[PingKey][3].Baseline = 45
    /\ added[PingKey][3].Trend = "BASELINE"
    /\ added[PingKey][4].Trend = "UP"

\* The label of a failed probe for a history of n measurements of mean b.
FailedLabel(b, n) == IF n >= MinSamples /\ b # 0 THEN "DOWN" ELSE "BASELINE"

\* C29. Failed probes are classified with a zero sample: a task whose probe
\* failed has responseTime 0 when the classifier is called, and its label is
\* DOWN when the key's history has at least 3 measurements and a non-zero
\* baseline, BASELINE otherwise, never STEADY or UP; the same holds of every
\* failed result sent, and of the classifier on a zero sample for any
\* baseline, negative ones included.
C29_FailedSample ==
    /\ \A t \in Tasks :
          (Probed(t) /\ ~task[t].online) =>
              /\ task[t].responseTime = 0
              /\ Classified(t) =>
                    /\ task[t].trend = FailedLabel(task[t].baseline, task[t].sampleCount)
                    /\ task[t].sampleCount = Len(SeqOf(start, ServiceKey(t)))
                         \/ \E u \in Tasks \ {t} : ServiceKey(u) = ServiceKey(t)
    /\ \A i \in 1..Len(results) :
          ~results[i].Online => results[i].Trend \in {"DOWN", "BASELINE"}
    /\ \A b \in Baselines, n \in SampleCounts : CalculateTrend(0, b, n) = FailedLabel(b, n)

\* Paris' ping failed against a history of three measurements of 100 and is
\* labelled DOWN; its HTTP probe failed against no history and is BASELINE.
C29_Witness ==
    /\ endpoints = <<Paris>>
    /\ PingKey \in DOMAIN start
    /\ Len(start[PingKey]) = MinSamples
    /\ Len(results) = 2
    /\ \A i \in 1..2 : ~results[i].Online
    /\ \E i \in 1..2 : results[i].TestType = TestTypePing /\ results[i].Trend = "DOWN"
                       /\ results[i].Baseline = 100
    /\ \E i \in 1..2 : results[i].TestType = TestTypeHTTP /\ results[i].Trend = "BASELINE"

\* The tasks whose send has completed.
Sent == {t \in Tasks : task[t].pc \in {"exit", "done"}}

\* C30. Result sends never block: the capacity of the results channel,
\* 3 * len(endpoints), is at least the number of dispatched tasks; a task at
\* its send can always take the step, with no receiver and the channel open;
\* while the orchestrator is launching or waiting nothing has been read, so
\* the channel holds every result sent; the channel is closed only after every
\* task has sent and returned, and once closed it is not closed again.
C30_SendsNeverBlock ==
    /\ Len(TaskList(endpoints)) <= ResultsCap(endpoints)
    /\ Len(results) <= ResultsCap(endpoints)
    /\ \A t \in Tasks : task[t].pc = "send" => (~closed /\ ENABLED TaskSend(t))
    /\ pc \in {"launch", "close"} =>
          /\ totals = ZeroTotals
          /\ Len(results) = Cardinality(Sent)
    /\ pc = "launch" => ~closed
    /\ closed => (launched = Len(TaskList(endpoints)) /\ Sent = Tasks /\ wg = 0)
    /\ closed => ~ENABLED Close

\* Both of Paris' tasks have sent and returned while the orchestrator is
\* still before close: two results are buffered and none has been read.
C30_Witness ==
    /\ endpoints = <<Paris>>
    /\ pc = "launch"
    /\ ~closed
    /\ Sent = Tasks
    /\ Len(results) = 2
    /\ totals = ZeroTotals

\* C31. Cycles never overlap: tasks are in flight only while their own cycle
\* is between launch and the return of wg.Wait; from then on, through the
\* save and until the next cycle is started, no task can read or append to
\* the store; the next cycle can start only when the cycle before has
\* returned, all its tasks done and its save made, and the file of a
\* successful save still equals the store when the next cycle starts.
C31_NoOverlap ==
    /\ \A t \in Tasks : Running(t) => pc = "launch"
    /\ pc # "launch" =>
          \A t \in Tasks : ~ENABLED TaskGetBaseline(t) /\ ~ENABLED TaskAddDataPoint(t)
    /\ (ENABLED TickerCycle \/ ENABLED FirstCycle) => (pc = "ready" /\ AllDone)
    /\ pc \in {"close", "collect", "summary", "save"} => (AllDone /\ wg = 0)
    /\ (pc = "ready" /\ cycle >= 1 /\ ~saveErr) => file = SaveToFile(store)

\* The second cycle has a task about to append while the file still holds
\* what the first cycle saved, a measurement of that cycle included.
C31_Witness ==
    /\ cycle = 2
    /\ pc = "launch"
    /\ task[1].pc = "add"
    /\ task[2].pc = "probe"
    /\ ~saveErr
    /\ file = SaveToFile(store)
    /\ PingKey \in DOMAIN store
    /\ Len(store[PingKey]) = 1

\* The serialized form of the measurement of task t.
SavedPoint(t) ==
    [Timestamp    |-> MarshalTime(task[t].timestamp),
     ResponseTime |-> task[t].responseTime]

\* C32. Snapshot completeness: a task whose probe succeeded has its
\* measurement in the store before it sends and signals completion; SaveToFile
\* can run only when every task is done, the mutex is free and no task is
\* inside AddDataPoint or GetBaseline; the store it serializes holds the
\* measurement of every successful probe of the cycle, and the file of a
\* successful save holds each of them under the task's key.
C32_SnapshotComplete ==
    /\ \A t \in Tasks :
          (task[t].online /\ task[t].pc \in {"send", "exit", "done"}) =>
              /\ ServiceKey(t) \in DOMAIN store
              /\ Occurrences(store[ServiceKey(t)], t) = 1
    /\ ENABLED Save =>
          /\ AllDone
          /\ mu = 0
          /\ \A t \in Tasks : ~InStoreMethod(t)
          /\ \A t \in Tasks :
                ~ENABLED GetBaselineLock(t) /\ ~ENABLED AddDataPointLock(t)
    /\ pc \in {"save", "ready"} =>
          \A t \in Tasks :
              task[t].online =>
                  /\ ServiceKey(t) \in DOMAIN store
                  /\ Occurrences(store[ServiceKey(t)], t) = 1
    /\ (pc = "ready" /\ ~saveErr) =>
          /\ file = SaveToFile(store)
          /\ \A t \in Tasks :
                task[t].online =>
                    \E i \in 1..Len(file.data[ServiceKey(t)]) :
                        file.data[ServiceKey(t)][i] = SavedPoint(t)

\* The twin endpoints both succeeded on a key whose window was full: the
\* saved file has 10 entries for the key, the last two being theirs.
C32_Witness ==
    /\ endpoints = <<ParisPing, ParisTwin>>
    /\ pc = "ready"
    /\ ~saveErr
    /\ task[1].online
    /\ task[2].online
    /\ PingKey \in DOMAIN start
    /\ Len(start[PingKey]) = WindowSize
    /\ Len(file.data[PingKey]) = WindowSize
    /\ {file.data[PingKey][WindowSize - 1], file.data[PingKey][WindowSize]}
          = {SavedPoint(1), SavedPoint(2)}

\* main is inside LoadFromFile or SaveToFile, past the Lock.
MainInStore ==
    pc \in {"load.read", "load.unmarshal", "load.merge", "load.return",
            "save.write", "save.return"}

\* C33. Lock discipline: the mutex is held by main exactly while main is
\* inside LoadFromFile or SaveToFile and by a task exactly while the task is
\* inside GetBaseline or AddDataPoint, so no operation returns with the mutex
\* held, whatever its return path, and at most one operation is inside the
\* store; the mutex passes only from free to held and from held to free; and
\* the store and the file change only in a step of the holder.
C33_LockDiscipline ==
    /\ [](/\ mu \in {0, MainGoroutine} \cup Tasks
          /\ (mu = MainGoroutine) <=> MainInStore
          /\ \A t \in Tasks : (mu = t) <=> InStoreMethod(t)
          /\ Cardinality({t \in Tasks : InStoreMethod(t)})
                + (IF MainInStore THEN 1 ELSE 0) <= 1)
    /\ [][mu' # mu => (mu = 0 \/ mu' = 0)]_vars
    /\ [][store' # store => (mu # 0 /\ mu' = mu)]_vars
    /\ [][file' # file => (mu = MainGoroutine /\ mu' = mu)]_vars

\* The load returned on malformed data, Paris' ping found no history under
\* its key, its HTTP probe appended, the save has returned: the mutex is free.
C33_Witness ==
    /\ endpoints = <<Paris>>
    /\ load = [kind |-> "malformed", err |-> TRUE]
    /\ pc = "ready"
    /\ mu = 0
    /\ ~task[1].online
    /\ task[1].sampleCount = 0
    /\ task[2].online
    /\ HTTPKey \in DOMAIN store
    /\ file = SaveToFile(store)

----------------------------------------------------------------------------
(* Properties of the basic monitor *)

RECURSIVE SumOnlineIn(_)
\* The sum of the durations of the online results of rs.
SumOnlineIn(rs) ==
    IF rs = <<>> THEN 0
    ELSE (IF Head(rs).Online THEN Head(rs).ResponseTime ELSE 0) + SumOnlineIn(Tail(rs))

\* How many results of rs are online.
OnlineIn(rs) == Cardinality({i \in 1..Len(rs) : rs[i].Online})

\* The results of rs that are of service svc.
OfService(rs, svc) == {i \in 1..Len(rs) : rs[i].Service = svc}

\* A service type the switch has a case for.
KnownType(type) == type \in {TypeHTTP, TypePing}

\* C34. Basic monitor completeness: every service gets at most one result,
\* and exactly one once the checks are over; a service of an unknown type
\* gets Online = false, zero duration and the error "Unknown service type";
\* nothing is printed, logged or counted before every check has completed
\* and the channel is closed; what is printed is what was collected (and
\* logged when the log file is open); the success count is the number of
\* online results, the total the sum of their durations, and the average the
\* truncated quotient, 0 when no result is online.
C34_BasicComplete ==
    /\ \A t \in Tasks :
          Cardinality(OfService(results \o totals.allResults, endpoints[t]))
              = (IF task[t].pc \in {"exit", "done"} THEN 1 ELSE 0)
    /\ Len(results) <= Len(endpoints)
    /\ \A t \in Tasks : task[t].pc = "send" => ENABLED BasicSend(t)
    /\ \A t \in Tasks :
          (~KnownType(endpoints[t].Type) /\ task[t].pc \in {"send", "exit", "done"}) =>
              /\ ~task[t].online
              /\ task[t].responseTime = 0
              /\ task[t].errMsg = "Unknown service type"
    /\ \A i \in 1..Len(totals.allResults) :
          ~KnownType(totals.allResults[i].Service.Type) =>
              /\ ~totals.allResults[i].Online
              /\ totals.allResults[i].Error = "Unknown service type"
    /\ totals # ZeroCounts => (AllDone /\ wg = 0 /\ closed /\ launched = Len(endpoints))
    /\ pc \in {"close", "collect", "ready"} => AllDone
    /\ totals.printed = totals.allResults
    /\ totals.logged = (IF load.err THEN <<>> ELSE totals.allResults)
    /\ totals.successCount = OnlineIn(totals.allResults)
    /\ totals.totalResponseTime = SumOnlineIn(totals.allResults)
    /\ pc = "ready" =>
          /\ Len(totals.allResults) = Len(endpoints)
          /\ results = <<>>
          /\ totals.avgResponseTime =
                (IF OnlineIn(totals.allResults) = 0 THEN 0
                 ELSE TruncDiv(SumOnlineIn(totals.allResults), OnlineIn(totals.allResults)))

\* A cycle over an unknown-type service and an HTTP service has ended: the
\* first has the error and no duration, the second answered in 45, and the
\* average is 45, over the one online result.
C34_Witness ==
    /\ endpoints = <<Printer, Google>>
    /\ pc = "ready"
    /\ ~load.err
    /\ Len(totals.logged) = 2
    /\ \E i \in 1..2 :
          /\ totals.allResults[i].Service = Printer
          /\ ~totals.allResults[i].Online
          /\ totals.allResults[i].Error = "Unknown service type"
    /\ \E i \in 1..2 :
          /\ totals.allResults[i].Service = Google
          /\ totals.allResults[i].Online
          /\ totals.allResults[i].ResponseTime = 45
    /\ totals.successCount = 1
    /\ totals.avgResponseTime = 45

\* C36. Ping fallback: when the ping command failed, the check is online
\* exactly when the dial to port 80 succeeded, and is otherwise offline with
\* zero duration and the error "Host unreachable"; when the ping command
\* succeeded the check is online; an online check has no error; and the
\* result sent carries the same.
C36_PingFallback ==
    /\ \A t \in Tasks :
          (endpoints[t].Type = TypePing /\ task[t].pc \in {"send", "exit", "done"}) =>
              /\ task[t].run.err =>
                    /\ task[t].online <=> ~task[t].run.dialErr
                    /\ ~task[t].online =>
                          (task[t].responseTime = 0 /\ task[t].errMsg = "Host unreachable")
              /\ ~task[t].run.err => task[t].online
              /\ task[t].online => task[t].errMsg = ""
              /\ \A i \in OfService(results \o totals.allResults, endpoints[t]) :
                    LET r == (results \o totals.allResults)[i]
                    IN  /\ r.Online = task[t].online
                        /\ r.ResponseTime = task[t].responseTime
                        /\ r.Error = task[t].errMsg
    /\ \A run \in PingRuns :
          checkPing(run).online <=> (~run.err \/ ~run.dialErr)

\* The ping command failed, the dial to port 80 succeeded: the ping service
\* is collected as online with the elapsed time of the command, 160.
C36_Witness ==
    /\ endpoints = <<Google, GoogleDNS>>
    /\ task[2].pc = "done"
    /\ task[2].run.err
    /\ ~task[2].run.dialErr
    /\ task[2].online
    /\ \E i \in 1..Len(totals.allResults) :
          /\ totals.allResults[i].Service = GoogleDNS
          /\ totals.allResults[i].Online
          /\ totals.allResults[i].ResponseTime = 160

----------------------------------------------------------------------------
(* Properties of the key parsers *)

\* str has the characters of sub in a row somewhere.
Contains(str, sub) ==
    \E q \in 0..(Len(str) - Len(sub)) : SubSeq(str, q + 1, q + Len(sub)) = sub

\* A location or provider the statement is about: no bracket, no " - ".
Plain(str) ==
    /\ ~Contains(str, <<"[">>)
    /\ ~Contains(str, <<"]">>)
    /\ ~Contains(str, <<" ", "-", " ">>)

\* C35. Service-key parse round-trip, as stated: for a location and a
\* provider without brackets and without " - ", parsing the key the monitor
\* builds gives (location, provider, kind) in the CSV exporter and
\* (location, provider, lower-cased kind) in the dashboard, with no slice
\* out of range.
C35_ParseRoundTrip ==
    (ret.op = "parseServiceName" /\ Plain(ret.location) /\ Plain(ret.provider)) =>
        /\ ~ret.csv.panic
        /\ ret.csv.location = ret.location
        /\ ret.csv.provider = ret.provider
        /\ ret.csv.testType = CharsOf(ret.testType)
        /\ ~ret.dashboard.panic
        /\ ret.dashboard.location = ret.location
        /\ ret.dashboard.provider = ret.provider
        /\ ret.dashboard.testType = ToLower(CharsOf(ret.testType))

\* What the two parsers do give on such keys: the exporter the exact triple,
\* the dashboard the location without its leading and trailing spaces.
ParsersOnPlainKeys ==
    (ret.op = "parseServiceName" /\ Plain(ret.location) /\ Plain(ret.provider)) =>
        /\ ~ret.csv.panic
        /\ ret.csv.location = ret.location
        /\ ret.csv.provider = ret.provider
        /\ ret.csv.testType = CharsOf(ret.testType)
        /\ ~ret.dashboard.panic
        /\ ret.dashboard.location = TrimSpace(ret.location)
        /\ ret.dashboard.provider = ret.provider
        /\ ret.dashboard.testType = ToLower(CharsOf(ret.testType))

====
